---- MODULE Spec2Model ----
(***************************************************************************)
(* ReachInbox Onebox AI: the ingestion / classification / reconciliation   *)
(* core.  Confidences are integers in hundredths (0.3 is 30).              *)
(*                                                                         *)
(* The module holds these specifications over one set of variables:        *)
(*   SpecSched     the three reconciliation jobs of ScheduledProcessor     *)
(*   FairSpecSched the jobs while store and external service answer        *)
(*   FairSpecTimers the jobs called by the three timers, in real time      *)
(*   SpecAI        one categorizeEmail / summarizeEmail call of AIService  *)
(*   FairSpecAI    the call when each awaited step returns                 *)
(*   SpecRate      AIService.checkRateLimit under concurrent callers       *)
(*   SpecIngest    ImapService emissions, the newEmail handler, the index  *)
(*   SpecStore     the operations of ElasticsearchService                  *)
(*   SpecFeedback  the feedback route, the feedback log and its statistics *)
(*   SpecFusion    AIService.combineModelResults on sampled inputs         *)
(*   SpecSummary   AIService.simpleSummarize on sampled texts              *)
(*   SpecImap      ImapService: connect, open, backfill, poll, parse       *)
(*   SpecAlerts    the posts of the newEmail handler to the two webhooks   *)
(*   SpecShutdown  the end of a connection and of the process              *)
(*   SpecBackoff   the waits of the retry loop of an AIService call        *)
(*   SpecInstances the rate windows of the AIService instances             *)
(* Each specification moves its own variables and leaves the others at     *)
(* their initial values.                                                   *)
(***************************************************************************)
EXTENDS Integers, Sequences, FiniteSets, TLC

VARIABLES
  \* ---- ScheduledProcessor
  isProcessing,      \* the busy flag
  jobPc,             \* per job kind: "idle" | "search" | "ai" | "update" | "delay"
  jobBatch,          \* per job kind: the items still to process (head = current)
  jobResult,         \* per job kind: the value the awaited AI call returned
  lastSkip,          \* kind of the last invocation skipped during the running job
  \* ---- ElasticsearchService (one flag per service instance, one shared store)
  index,             \* the store: a set of documents
  isConnected,       \* per instance: the connectivity flag
  connectionAttempts,\* per instance: failed pings so far
  \* ---- AIService: one categorizeEmail / summarizeEmail call
  isValidKey,        \* the API key passed the constructor's validation
  aiPc,              \* "idle" | "rateLimit" | "category" | "sentiment" | "intent"
                     \* | "generate" | "backoff" | "done"
  aiCall,            \* "categorize" | "summarize" | "none"
  retries,           \* the loop's retry counter
  mainCategory,      \* value of getMainCategory in the current attempt
  sentiment,         \* value of getSentimentAnalysis in the current attempt
  aiReturn,          \* what the call returned (a result record or a summary)
  catResp,           \* history: the category response of the current attempt
  sentResp,          \* history: the sentiment response of the current attempt
  intResp,           \* history: the intent response of the current attempt
  attemptLog,        \* history: how each attempt of the call ended
  \* ---- AIService.checkRateLimit under concurrent callers
  clock,             \* Date.now(), in milliseconds
  requestCount,      \* requests counted in the current window
  lastRequestTime,   \* start of the current window
  rlPc,              \* per caller: "idle" | "delay" (inside await this.delay)
  rlWake,            \* per caller: when its delay ends
  admitted,          \* history: the times of the admissions since the window start
  \* ---- ImapService and the newEmail handler of the entry point
  acctState,         \* per account: "connecting" | "opening" | "watching" | "failed"
  pollAt,            \* per account: when the polling timer fires next
  pending,           \* fetched messages whose parse has not ended
  handlers,          \* per slot: a running newEmail handler, or a free slot
  reindexed,         \* history: the ids stored by indexEmail more than once
  mailbox,           \* per account: the messages the server holds in the folder
  connResolved,      \* per account: the promise of connectAccount is resolved
  errorFired,        \* per account: the once('error') listener has run
  isReady,           \* ImapService.isReady
  dropped,           \* history: the fetched messages whose parse failed (the error log)
  \* ---- one call of an ElasticsearchService operation
  lastOp,            \* the last operation called: its instance, what it sent and returned
  \* ---- the feedback log and the feedback routes
  feedbackFile,      \* the file at feedbackFilePath: whether it exists, and its records
  feedbackCalls,     \* feedback submissions waiting for their getEmailById
  lastAck,           \* the last feedback submission or direct call, and how it was answered
  lastStats,         \* the last getFeedbackStats call: the log it met, what it returned
  \* ---- combineModelResults and simpleSummarize applied to given arguments
  fusionIn,          \* the arguments of combineModelResults
  fusionOut,         \* its result, with the exact double of the confidence
  summaryIn,         \* the arguments of simpleSummarize
  summaryOut,        \* its result
  \* ---- the waits of the retry loop of categorizeEmail / summarizeEmail
  delayMs,           \* the loop's delayMs
  waits,             \* history: the arguments of this.delay in the current call
  \* ---- the AIService instances of the process, each with its own rate window
  instCount,         \* per instance: its requestCount
  instLast,          \* per instance: its lastRequestTime
  instPc,            \* per instance: "idle" | "delay" (a caller inside await this.delay)
  processAdmitted,   \* history: the calls admitted in the process since the clock's value
  \* ---- the three timers of startScheduledProcessing
  elapsed,           \* milliseconds since the timers were registered, modulo two hours
  expired,           \* the job kinds whose timer has expired and not yet called back
  \* ---- the posts that reached a webhook
  delivered,         \* history: per hook and message id, the posts that succeeded (1st, 2nd)
  \* ---- the end of the connections and of the process
  connEnded,         \* per account: the 'end' event of its connection has been emitted
  exited             \* process.exit(0) has been called

schedVars == <<isProcessing, jobPc, jobBatch, jobResult, lastSkip>>
esVars    == <<index, isConnected, connectionAttempts>>
aiVars    == <<isValidKey, aiPc, aiCall, retries, mainCategory, sentiment, aiReturn,
               catResp, sentResp, intResp, attemptLog>>
rateVars  == <<clock, requestCount, lastRequestTime, rlPc, rlWake, admitted>>
connVars  == <<mailbox, connResolved, errorFired, isReady>>
parseVars == <<dropped>>
ingestVars == <<acctState, pollAt, pending, handlers, reindexed, connVars, parseVars>>
storeOpVars == <<lastOp>>
feedbackVars == <<feedbackFile, feedbackCalls, lastAck, lastStats>>
pureVars  == <<fusionIn, fusionOut, summaryIn, summaryOut>>

\* what the actions of one component leave unchanged
backoffVars == <<delayMs, waits>>
instanceVars == <<instCount, instLast, instPc, processAdmitted>>
timerVars   == <<elapsed, expired>>
alertVars   == <<delivered>>
endVars     == <<connEnded, exited>>
extraVars   == <<backoffVars, instanceVars, timerVars, alertVars, endVars>>
apiVars     == <<storeOpVars, feedbackVars, pureVars, extraVars>>
othersAI    == <<schedVars, esVars, rateVars, ingestVars, apiVars>>
othersSched == <<aiVars, rateVars, ingestVars, apiVars>>
othersRate  == <<schedVars, esVars, aiVars, ingestVars, apiVars>>
othersConn  == <<schedVars, aiVars, requestCount, lastRequestTime, rlPc, rlWake, admitted,
                 apiVars>>
othersIngest == <<othersConn, connVars, parseVars>>
othersStoreOp == <<schedVars, aiVars, rateVars, ingestVars, feedbackVars, pureVars, extraVars>>
othersFeedback == <<schedVars, aiVars, rateVars, ingestVars, pureVars, extraVars>>
othersPure  == <<schedVars, esVars, aiVars, rateVars, ingestVars, storeOpVars, feedbackVars,
                 extraVars>>
othersBackoff == <<schedVars, esVars, aiVars, rateVars, ingestVars, storeOpVars, feedbackVars,
                   pureVars, instanceVars, timerVars, alertVars, endVars>>
othersInstance == <<schedVars, esVars, aiVars, rateVars, ingestVars, storeOpVars, feedbackVars,
                    pureVars, backoffVars, timerVars, alertVars, endVars>>
othersTimer == <<aiVars, rateVars, ingestVars, storeOpVars, feedbackVars, pureVars,
                 backoffVars, instanceVars, alertVars, endVars>>
othersAlert == <<acctState, pollAt, pending, reindexed, clock, esVars, schedVars, aiVars,
                 requestCount, lastRequestTime, rlPc, rlWake, admitted, connVars, parseVars,
                 storeOpVars, feedbackVars, pureVars, backoffVars, instanceVars, timerVars,
                 endVars>>
othersEnd   == <<schedVars, esVars, aiVars, rateVars, ingestVars, storeOpVars, feedbackVars,
                 pureVars, backoffVars, instanceVars, timerVars, alertVars>>

vars      == <<isProcessing, jobPc, jobBatch, jobResult, lastSkip,
               index, isConnected, connectionAttempts,
               isValidKey, aiPc, aiCall, retries, mainCategory, sentiment, aiReturn,
               catResp, sentResp, intResp, attemptLog,
               clock, requestCount, lastRequestTime, rlPc, rlWake, admitted,
               acctState, pollAt, pending, handlers, reindexed,
               mailbox, connResolved, errorFired, isReady, dropped,
               lastOp, feedbackFile, feedbackCalls, lastAck, lastStats,
               fusionIn, fusionOut, summaryIn, summaryOut,
               delayMs, waits, instCount, instLast, instPc, processAdmitted,
               elapsed, expired, delivered, connEnded, exited>>

-----------------------------------------------------------------------------
(* Types *)

EmailCategory == {"Interested", "Meeting Booked", "Not Interested", "Spam", "Out of Office"}

\* JavaScript NaN, the value Math.min / Math.max return for a non-numeric argument.
NaN == 1000000

\* An optional value: None, or Some(x).
None == <<>>
Some(x) == <<x>>
Absent == "absent"

\* JSON null: what JSON.stringify writes for NaN, and what is read back for it.
Null == 1000001


-----------------------------------------------------------------------------
(* JavaScript number operations, with NaN *)

MathMin(a, b) == IF a = NaN \/ b = NaN THEN NaN ELSE IF a < b THEN a ELSE b
MathMax(a, b) == IF a = NaN \/ b = NaN THEN NaN ELSE IF a > b THEN a ELSE b
Plus(a, b)    == IF a = NaN \/ b = NaN THEN NaN ELSE a + b
Greater(a, b) == a # NaN /\ b # NaN /\ a > b
Less(a, b)    == a # NaN /\ b # NaN /\ a < b

-----------------------------------------------------------------------------
(* JavaScript numbers as IEEE 754 doubles, exactly.  A double d with 0 <= d < 4 *)
(* is the integer d * 2^60, held in three limbs <<hi, mid, lo>> of 20 bits    *)
(* (hi is not limited); the significand of a double has 53 bits.              *)

Limb == 1048576
SignificandBits == 53
DblNaN == <<-1, 0, 0>>
DblOne == <<Limb, 0, 0>>

\* carries moved up, so that mid and lo are below Limb
Normalize(x) ==
  LET mid == x[2] + (x[3] \div Limb)
  IN <<x[1] + (mid \div Limb), mid % Limb, x[3] % Limb>>

\* the number of bits of n
BitLen(n) == IF n = 0 THEN 0 ELSE CHOOSE l \in 1..31 : 2^(l - 1) <= n /\ n < 2^l

\* round to nearest, ties to even, to 53 significant bits
RoundToDouble(x) ==
  LET k == 2 * 20 + BitLen(x[1]) - SignificandBits
  IN IF x[1] = 0 \/ k <= 0 THEN x
     ELSE LET unit == 2^k
              rem  == x[3] % unit
              down == x[3] - rem
              up   == (2 * rem > unit) \/ (2 * rem = unit /\ (down \div unit) % 2 = 1)
          IN Normalize(<<x[1], x[2], IF up THEN down + unit ELSE down>>)

\* a + b
DblAdd(a, b) ==
  IF a = DblNaN \/ b = DblNaN THEN DblNaN
  ELSE RoundToDouble(Normalize(<<a[1] + b[1], a[2] + b[2], a[3] + b[3]>>))

DblLess(a, b) ==
  \/ a[1] < b[1]
  \/ a[1] = b[1] /\ a[2] < b[2]
  \/ a[1] = b[1] /\ a[2] = b[2] /\ a[3] < b[3]

\* Math.min(a, b)
DblMin(a, b) == IF a = DblNaN \/ b = DblNaN THEN DblNaN ELSE IF DblLess(a, b) THEN a ELSE b

\* the double a decimal literal or JSON number of h hundredths denotes (0 <= h < 400):
\* h * 2^e / 100 is divided limb by limb and rounded, with e chosen so that the
\* quotient has 53 bits, and the quotient is moved to the 2^60 scale
ParseDouble(h) ==
  IF h = NaN THEN DblNaN
  ELSE IF h = 0 THEN <<0, 0, 0>>
  ELSE LET e   == CHOOSE x \in 50..60 : 100 * 2^(52 - 50) <= h * 2^(x - 50)
                                         /\ h * 2^(x - 50) < 100 * 2^(53 - 50)
           top == h * 2^(e - 2 * 20)
           q2  == top \div 100
           r2  == top % 100
           q1  == (r2 * Limb) \div 100
           r1  == (r2 * Limb) % 100
           q0  == (r1 * Limb) \div 100
           r0  == (r1 * Limb) % 100
           up  == (2 * r0 > 100) \/ (2 * r0 = 100 /\ q0 % 2 = 1)
           s   == 2^(60 - e)
       IN Normalize(<<q2 * s, q1 * s, (IF up THEN q0 + 1 ELSE q0) * s>>)

-----------------------------------------------------------------------------
(* AIService: the responses of the external model *)

\* What one generateContent request can do: fail with a quota error, fail with
\* another error, or answer with a text.  A text either has no brace pair, or has
\* one around something JSON.parse rejects, or around an object.
NoFields == [label |-> "", confidence |-> NaN, reasoningIsArray |-> FALSE]
Resp(kind, f) == [kind |-> kind, label |-> f.label, confidence |-> f.confidence,
                  reasoningIsArray |-> f.reasoningIsArray]
NonJsonResponses == {Resp(k, NoFields) : k \in {"error429", "errorOther", "nobrace", "badjson"}}

\* confidence values a response can carry; NaN stands for a missing or non-numeric one
RawConfidences == {NaN, -50, 30, 95, 150}
CategoryLabels == EmailCategory \cup {"Unknown"}
SentimentLabels == {"Positive", "Neutral", "Negative", "Automated"}
IntentLabels == {"Inquiry", "Confirmation", "Rejection", "Informational", "Automated"}
SentimentConfidences == {80, 85}
IntentConfidences == {70, 75}

CategoryResponses ==
  NonJsonResponses \cup
  {Resp("json", [label |-> l, confidence |-> c, reasoningIsArray |-> a]) :
     l \in CategoryLabels, c \in RawConfidences, a \in BOOLEAN}
SentimentResponses ==
  NonJsonResponses \cup
  {Resp("json", [label |-> l, confidence |-> c, reasoningIsArray |-> FALSE]) :
     l \in SentimentLabels, c \in SentimentConfidences}
IntentResponses ==
  NonJsonResponses \cup
  {Resp("json", [label |-> l, confidence |-> c, reasoningIsArray |-> FALSE]) :
     l \in IntentLabels, c \in IntentConfidences}

\* How a request ends for the caller: a value, or a thrown error of some kind.
\* JSON.parse of a non-JSON brace pair throws a SyntaxError (not a quota error).
Thrown(r) ==
  CASE r.kind = "error429"   -> "rate"
    [] r.kind = "errorOther" -> "other"
    [] r.kind = "badjson"    -> "other"
    [] OTHER                 -> "none"

ModelReasoning == <<"model reasoning">>

\* getMainCategory with the confidence of the unavailable-service default in its fallback
GetMainCategory_OtherDefault(r) ==
  IF r.kind = "json" /\ r.label \in EmailCategory
  THEN [category   |-> r.label,
        confidence |-> MathMax(0, MathMin(100, r.confidence)),
        reasoning  |-> IF r.reasoningIsArray THEN ModelReasoning ELSE <<>>]
  ELSE [category |-> "Spam", confidence |-> 50,
        reasoning |-> <<"Invalid AI response format">>]

\* getMainCategory: the value returned when the request does not throw
GetMainCategory(r) ==
  IF r.kind = "json" /\ r.label \in EmailCategory
  THEN [category   |-> r.label,
        confidence |-> MathMax(0, MathMin(100, r.confidence)),
        reasoning  |-> IF r.reasoningIsArray THEN ModelReasoning ELSE <<>>]
  ELSE [category |-> "Spam", confidence |-> 30,
        reasoning |-> <<"Invalid AI response format">>]

\* getSentimentAnalysis: no validation of the label
GetSentimentAnalysis(r) ==
  IF r.kind = "json"
  THEN [sentiment |-> r.label, confidence |-> MathMax(0, MathMin(100, r.confidence))]
  ELSE [sentiment |-> "Neutral", confidence |-> 50]

\* getIntentClassification: no validation of the label
GetIntentClassification(r) ==
  IF r.kind = "json"
  THEN [intent |-> r.label, confidence |-> MathMax(0, MathMin(100, r.confidence))]
  ELSE [intent |-> "Informational", confidence |-> 50]

\* combineModelResults, statement by statement; the accumulator holds
\* adjustedConfidence in hundredths and as the double the program has
Adjust(acc, hundredths, text) ==
  [confidence |-> MathMin(100, Plus(acc.confidence, hundredths)),
   exact      |-> DblMin(DblOne, DblAdd(acc.exact, ParseDouble(hundredths))),
   extra      |-> Append(acc.extra, text)]

SentimentStep_Uncapped(m, s, acc) ==
  IF s.sentiment = "Positive" /\ m.category = "Interested"
  THEN [Adjust(acc, 10, "Sentiment analysis confirms positive sentiment")
          EXCEPT !.confidence = Plus(acc.confidence, 10)]
  ELSE IF s.sentiment = "Negative" /\ m.category = "Not Interested"
  THEN Adjust(acc, 10, "Sentiment analysis confirms negative sentiment")
  ELSE IF s.sentiment = "Automated" /\ m.category = "Out of Office"
  THEN Adjust(acc, 15, "Sentiment analysis confirms automated response")
  ELSE acc

SentimentStep(m, s, acc) ==
  IF s.sentiment = "Positive" /\ m.category = "Interested"
  THEN Adjust(acc, 10, "Sentiment analysis confirms positive sentiment")
  ELSE IF s.sentiment = "Negative" /\ m.category = "Not Interested"
  THEN Adjust(acc, 10, "Sentiment analysis confirms negative sentiment")
  ELSE IF s.sentiment = "Automated" /\ m.category = "Out of Office"
  THEN Adjust(acc, 15, "Sentiment analysis confirms automated response")
  ELSE acc

IntentStep(m, i, acc) ==
  IF i.intent = "Confirmation" /\ m.category = "Meeting Booked"
  THEN Adjust(acc, 10, "Intent analysis confirms meeting confirmation")
  ELSE IF i.intent = "Rejection" /\ m.category = "Not Interested"
  THEN Adjust(acc, 10, "Intent analysis confirms rejection")
  ELSE acc

\* the rule with thresholds that are reached, not passed
SpamRule_AtLeast(m, s, i) ==
  /\ m.category = "Spam"
  /\ s.sentiment = "Negative" /\ ~Less(s.confidence, 80) /\ s.confidence # NaN
  /\ i.intent = "Informational" /\ ~Less(i.confidence, 70) /\ i.confidence # NaN

SpamRule(m, s, i) ==
  /\ m.category = "Spam"
  /\ s.sentiment = "Negative" /\ Greater(s.confidence, 80)
  /\ i.intent = "Informational" /\ Greater(i.confidence, 70)

SpamStep(m, s, i, acc) ==
  IF SpamRule(m, s, i)
  THEN Adjust(acc, 15, "Combined analysis confirms spam characteristics")
  ELSE acc

\* the three blocks in order, from adjustedConfidence = mainCategory.confidence
CombineSteps(m, s, i) ==
  SpamStep(m, s, i,
    IntentStep(m, i,
      SentimentStep(m, s,
        [confidence |-> m.confidence, exact |-> ParseDouble(m.confidence),
         extra |-> <<>>])))

CombineModelResults(m, s, i) ==
  LET a3 == CombineSteps(m, s, i)
  IN [category |-> m.category, confidence |-> a3.confidence,
      reasoning |-> m.reasoning \o a3.extra]

\* the fixed results of categorizeEmail
ServiceUnavailable == [category |-> "Spam", confidence |-> 50,
                       reasoning |-> <<"AI service unavailable">>]
ProcessingError    == [category |-> "Spam", confidence |-> 20,
                       reasoning |-> <<"AI processing error">>]
RetryLimitExceeded == [category |-> "Spam", confidence |-> 10,
                       reasoning |-> <<"Retry limit exceeded">>]

maxRetries == 3

\* summarizeEmail: the texts the model can answer with, by length class
SummaryResponses ==
  {Resp(k, NoFields) : k \in {"error429", "errorOther"}} \cup
  {Resp("text", [label |-> l, confidence |-> NaN, reasoningIsArray |-> FALSE]) :
     l \in {"empty", "short", "long"}}

\* the summary returned for a text: as it is, or cut to 97 characters plus "..."
SummaryOf(r) ==
  CASE r.label = "empty" -> ""
    [] r.label = "short" -> "model summary"
    [] OTHER             -> "model summary cut..."

\* simpleSummarize, as a token for the text it builds from subject and body
LocalSummary == "local summary"

NoResp   == Resp("none", NoFields)
NoResult == [category |-> "none", confidence |-> NaN, reasoning |-> <<>>]
NoSentiment == [sentiment |-> "none", confidence |-> NaN]
NoReturn == [result |-> NoResult, summary |-> Absent]

-----------------------------------------------------------------------------
(* AIService: one call, step by step (every await is a step) *)

AIInit ==
  /\ isValidKey \in BOOLEAN
  /\ aiPc = "idle"
  /\ aiCall = "none"
  /\ retries = 0
  /\ mainCategory = NoResult
  /\ sentiment = NoSentiment
  /\ aiReturn = NoReturn
  /\ catResp = NoResp
  /\ sentResp = NoResp
  /\ intResp = NoResp
  /\ attemptLog = <<>>

\* a retry test that is off by one
IsRetried_OffByOne(thrown, n) == thrown = "rate" /\ n <= maxRetries

\* the error is retried: a quota error, and retries left
IsRetried(thrown, n) == thrown = "rate" /\ n < maxRetries

\* the while condition of the retry loop
LoopContinues(n) == n <= maxRetries

\* a catch block that returns the label the uncategorized job searches for
CatchReturn_Uncategorized(call) ==
  IF call = "categorize"
  THEN [result |-> [category |-> "Uncategorized", confidence |-> 20,
                    reasoning |-> <<"AI processing error">>],
        summary |-> Absent]
  ELSE [result |-> NoResult, summary |-> LocalSummary]

\* what the call returns from its catch block when the error is not retried
CatchReturn(call) ==
  IF call = "categorize"
  THEN [result |-> ProcessingError, summary |-> Absent]
  ELSE [result |-> NoResult, summary |-> LocalSummary]

\* what the call returns after the loop
ExhaustedReturn(call) ==
  IF call = "categorize"
  THEN [result |-> RetryLimitExceeded, summary |-> Absent]
  ELSE [result |-> NoResult, summary |-> LocalSummary]

\* the catch block of the retry loop
Catch(thrown) ==
  /\ attemptLog' = Append(attemptLog, thrown)
  /\ IF IsRetried(thrown, retries)
     THEN /\ aiPc' = "backoff"
          /\ aiReturn' = aiReturn
     ELSE /\ aiPc' = "done"
          /\ aiReturn' = CatchReturn(aiCall)

CategorizeEmail ==
  /\ aiPc = "idle"
  /\ aiCall' = "categorize"
  /\ retries' = 0
  /\ attemptLog' = <<>>
  /\ mainCategory' = NoResult
  /\ sentiment' = NoSentiment
  /\ catResp' = NoResp /\ sentResp' = NoResp /\ intResp' = NoResp
  /\ IF ~isValidKey
     THEN aiPc' = "done" /\ aiReturn' = [result |-> ServiceUnavailable, summary |-> Absent]
     ELSE aiPc' = "rateLimit" /\ aiReturn' = NoReturn
  /\ UNCHANGED <<isValidKey, othersAI>>

SummarizeEmail ==
  /\ aiPc = "idle"
  /\ aiCall' = "summarize"
  /\ retries' = 0
  /\ attemptLog' = <<>>
  /\ mainCategory' = NoResult
  /\ sentiment' = NoSentiment
  /\ catResp' = NoResp /\ sentResp' = NoResp /\ intResp' = NoResp
  /\ aiPc' = "rateLimit" /\ aiReturn' = NoReturn
  /\ UNCHANGED <<isValidKey, othersAI>>

\* await this.checkRateLimit() returns
RateLimitPassed ==
  /\ aiPc = "rateLimit"
  /\ IF aiCall = "categorize"
     THEN aiPc' = "category" /\ aiReturn' = aiReturn
     ELSE IF ~isValidKey
     THEN aiPc' = "done" /\ aiReturn' = [result |-> NoResult, summary |-> LocalSummary]
     ELSE aiPc' = "generate" /\ aiReturn' = aiReturn
  /\ UNCHANGED <<isValidKey, aiCall, retries, mainCategory, sentiment,
                 catResp, sentResp, intResp, attemptLog, othersAI>>

CategoryRequest(r) ==
  /\ aiPc = "category"
  /\ catResp' = r
  /\ sentResp' = NoResp /\ intResp' = NoResp
  /\ IF Thrown(r) = "none"
     THEN /\ mainCategory' = GetMainCategory(r)
          /\ aiPc' = "sentiment"
          /\ UNCHANGED <<aiReturn, attemptLog>>
     ELSE /\ mainCategory' = NoResult
          /\ Catch(Thrown(r))
  /\ sentiment' = NoSentiment
  /\ UNCHANGED <<isValidKey, aiCall, retries, othersAI>>

SentimentRequest(r) ==
  /\ aiPc = "sentiment"
  /\ sentResp' = r
  /\ IF Thrown(r) = "none"
     THEN /\ sentiment' = GetSentimentAnalysis(r)
          /\ aiPc' = "intent"
          /\ UNCHANGED <<aiReturn, attemptLog, mainCategory>>
     ELSE /\ sentiment' = NoSentiment
          /\ mainCategory' = NoResult
          /\ Catch(Thrown(r))
  /\ UNCHANGED <<isValidKey, aiCall, retries, catResp, intResp, othersAI>>

IntentRequest(r) ==
  /\ aiPc = "intent"
  /\ intResp' = r
  /\ IF Thrown(r) = "none"
     THEN /\ aiReturn' = [result |-> CombineModelResults(mainCategory, sentiment,
                                                        GetIntentClassification(r)),
                          summary |-> Absent]
          /\ aiPc' = "done"
          /\ attemptLog' = Append(attemptLog, "ok")
          /\ UNCHANGED <<mainCategory, sentiment>>
     ELSE /\ sentiment' = NoSentiment
          /\ mainCategory' = NoResult
          /\ Catch(Thrown(r))
  /\ UNCHANGED <<isValidKey, aiCall, retries, catResp, sentResp, othersAI>>

GenerateRequest(r) ==
  /\ aiPc = "generate"
  /\ IF Thrown(r) = "none"
     THEN /\ aiReturn' = [result |-> NoResult, summary |-> SummaryOf(r)]
          /\ aiPc' = "done"
          /\ attemptLog' = Append(attemptLog, "ok")
     ELSE Catch(Thrown(r))
  /\ UNCHANGED <<isValidKey, aiCall, retries, mainCategory, sentiment,
                 catResp, sentResp, intResp, othersAI>>

\* await this.delay(delayMs) returns; retries++; continue
BackoffDone ==
  /\ aiPc = "backoff"
  /\ retries' = retries + 1
  /\ IF LoopContinues(retries + 1)
     THEN /\ aiPc' = IF aiCall = "categorize" THEN "category" ELSE "generate"
          /\ aiReturn' = aiReturn
     ELSE /\ aiPc' = "done"
          /\ aiReturn' = ExhaustedReturn(aiCall)
  /\ UNCHANGED <<isValidKey, aiCall, mainCategory, sentiment,
                 catResp, sentResp, intResp, attemptLog, othersAI>>

\* the caller takes the returned value
CallReturns ==
  /\ aiPc = "done"
  /\ aiPc' = "idle"
  /\ UNCHANGED <<isValidKey, aiCall, retries, mainCategory, sentiment, aiReturn,
                 catResp, sentResp, intResp, attemptLog, othersAI>>

\* the value categorizeEmail returns when the attempt that ends the call got the
\* responses c, s and i (a request that throws ends the attempt)
AttemptResult(c, s, i) ==
  IF Thrown(c) # "none" \/ Thrown(s) # "none" \/ Thrown(i) # "none"
  THEN ProcessingError
  ELSE CombineModelResults(GetMainCategory(c), GetSentimentAnalysis(s),
                           GetIntentClassification(i))

\* every value categorizeEmail can return, for responses drawn from Cs, Ss and Is
CategorizeOutcomes(valid, Cs, Ss, Is) ==
  IF ~valid THEN {ServiceUnavailable}
  ELSE {AttemptResult(c, s, i) : c \in Cs, s \in Ss, i \in Is}

\* every value summarizeEmail can return, for responses drawn from Rs
SummarizeOutcomes(valid, Rs) ==
  IF ~valid THEN {LocalSummary}
  ELSE {IF Thrown(r) = "none" THEN SummaryOf(r) ELSE LocalSummary : r \in Rs}

-----------------------------------------------------------------------------
(* ElasticsearchService *)

\* the service instances: of the entry point, of ScheduledProcessor, of EmailController
Instances == {"main", "sched", "api"}

maxConnectionAttempts == 5

\* JSON.stringify of a number
JsonNumber(x) == IF x = NaN THEN Null ELSE x

\* the document client.index writes: the Email as given
Document(email) == email

StoreIndex_Append(store, email) ==
  store \cup {Document(email)}

\* client.index({id, body}): creates the document or replaces it as a whole
StoreIndex(store, email) ==
  {d \in store : d.id # email.id} \cup {Document(email)}

\* client.update({id, body: {doc}}): merges the fields into the document with that id;
\* fails (404) when there is none
AIResultsDoc(d, category, confidence, reasoning) ==
  [d EXCEPT !.aiCategory = Some(category),
            !.aiConfidence = Some(JsonNumber(confidence)),
            !.aiReasoning = Some(reasoning)]

SummaryDoc(d, summary) == [d EXCEPT !.summary = Some(summary)]

\* an update that creates the document when there is none (doc_as_upsert)
StoreUpdateAIResults_Upsert(store, id, category, confidence, reasoning) ==
  IF \E d \in store : d.id = id
  THEN {IF d.id = id THEN AIResultsDoc(d, category, confidence, reasoning) ELSE d : d \in store}
  ELSE store \cup
       {[id |-> id, accountId |-> id.accountId, messageId |-> id.messageId, date |-> 0,
         aiCategory |-> Some(category), aiConfidence |-> Some(JsonNumber(confidence)),
         aiReasoning |-> Some(reasoning), summary |-> None]}

StoreUpdateAIResults(store, id, category, confidence, reasoning) ==
  {IF d.id = id THEN AIResultsDoc(d, category, confidence, reasoning) ELSE d : d \in store}

StoreUpdateSummary(store, id, summary) ==
  {IF d.id = id THEN SummaryDoc(d, summary) ELSE d : d \in store}

\* the hits of a search, newest first (documents of one date in any order)
IsDateDescending(seq) ==
  \A i \in 1..(Len(seq) - 1) : seq[i].date >= seq[i + 1].date

Orderings(S) ==
  {seq \in [1..Cardinality(S) -> S] :
     /\ \A d \in S : \E i \in 1..Cardinality(S) : seq[i] = d
     /\ IsDateDescending(seq)}

\* Array.prototype.slice(0, n)
Slice(seq, n) == SubSeq(seq, 1, IF Len(seq) < n THEN Len(seq) ELSE n)

\* a probe loop without the limit of attempts
ProbeRunning_NoLimit(inst) == ~isConnected[inst]

\* testConnectionWithRetry: one ping of the probe loop
ProbeRunning(inst) ==
  ~isConnected[inst] /\ connectionAttempts[inst] < maxConnectionAttempts

Ping(inst, ok) ==
  /\ ProbeRunning(inst)
  /\ IF ok
     THEN /\ isConnected' = [isConnected EXCEPT ![inst] = TRUE]
          /\ UNCHANGED connectionAttempts
     ELSE /\ connectionAttempts' = [connectionAttempts EXCEPT ![inst] = @ + 1]
          /\ isConnected' = [isConnected EXCEPT ![inst] = FALSE]
  /\ UNCHANGED index

\* the failed pings of a probe that a specification follows
MaxFailedPings == 1

ESInit ==
  /\ isConnected = [i \in Instances |-> FALSE]
  /\ connectionAttempts = [i \in Instances |-> 0]

\* the filters of searchEmails that this model uses: aiCategory and minConfidence
NoFilters == [aiCategory |-> None, minConfidence |-> None]

\* a query that takes a document when one of the filters holds
Matches_AnyFilter(d, filters) ==
  \/ filters.aiCategory # None /\ d.aiCategory = filters.aiCategory
  \/ filters.minConfidence # None /\ d.aiConfidence # None /\ d.aiConfidence[1] # Null
       /\ d.aiConfidence[1] >= filters.minConfidence[1]
  \/ filters = [aiCategory |-> None, minConfidence |-> None]

\* the bool query: a term filter on aiCategory, a range filter (gte) on aiConfidence;
\* a document without a numeric aiConfidence matches no range
Matches(d, filters) ==
  /\ filters.aiCategory # None => d.aiCategory = filters.aiCategory
  /\ filters.minConfidence # None =>
       /\ d.aiConfidence # None
       /\ d.aiConfidence[1] # Null
       /\ d.aiConfidence[1] >= filters.minConfidence[1]

\* searchEmails on a connected instance whose store call succeeds: the possible results
SearchResults(store, filters) == Orderings({d \in store : Matches(d, filters)})

-----------------------------------------------------------------------------
(* ScheduledProcessor *)

JobKinds == {"uncategorized", "lowConfidence", "summaries"}

UncategorizedBatchSize == 50
LowConfidenceBatchSize == 30
SummariesBatchSize == 50
LowConfidenceThreshold == 50

\* number read from a stored aiConfidence in a comparison: null converts to 0
ToNumber(x) == IF x = Null THEN 0 ELSE x

IsLowConfidence(email) ==
  email.aiConfidence # None /\ Less(ToNumber(email.aiConfidence[1]), LowConfidenceThreshold)

HasNoSummary(email) == email.summary = None \/ email.summary = Some("")

\* the search a job issues
JobFilters(k) ==
  IF k = "uncategorized"
  THEN [aiCategory |-> Some("Uncategorized"), minConfidence |-> None]
  ELSE NoFilters

\* the items a job takes from the search result
JobItems(k, found) ==
  CASE k = "uncategorized" -> Slice(found, UncategorizedBatchSize)
    [] k = "lowConfidence" -> Slice(SelectSeq(found, IsLowConfidence), LowConfidenceBatchSize)
    [] OTHER               -> Slice(SelectSeq(found, HasNoSummary), SummariesBatchSize)

\* the loop reads email.id of each item (the other fields go to the AI call and the log)
ItemIds(items) == [n \in 1..Len(items) |-> items[n].id]

\* a processor that never sees the flag set
NeverBusy == FALSE

\* if (this.isProcessing) return
AlreadyProcessing == isProcessing

\* a job that ends without its finally block
FlagLeftSet == TRUE

\* finally { this.isProcessing = false }
FlagAfterJob == FALSE

\* the end of a job: the finally block
JobEnds(k) ==
  /\ isProcessing' = FlagAfterJob
  /\ jobPc' = [jobPc EXCEPT ![k] = "idle"]
  /\ jobBatch' = [jobBatch EXCEPT ![k] = <<>>]
  /\ lastSkip' = "none"

SchedInit ==
  /\ isProcessing = FALSE
  /\ jobPc = [k \in JobKinds |-> "idle"]
  /\ jobBatch = [k \in JobKinds |-> <<>>]
  /\ jobResult = [k \in JobKinds |-> NoReturn]
  /\ lastSkip = "none"

\* the call of a job, up to its first await: the flag test and the flag set
JobCall(k) ==
  IF AlreadyProcessing
  THEN /\ lastSkip' = k
       /\ UNCHANGED <<isProcessing, jobPc, jobBatch>>
  ELSE /\ isProcessing' = TRUE
       /\ jobPc' = [jobPc EXCEPT ![k] = "search"]
       /\ jobBatch' = [jobBatch EXCEPT ![k] = <<>>]
       /\ lastSkip' = "none"

\* a timer of startScheduledProcessing fires and calls the job
TimerTick(k) ==
  /\ JobCall(k)
  /\ UNCHANGED <<jobResult, esVars, othersSched>>

\* await searchEmails(...) returns: the hits, or [] when the instance is not
\* connected or the store call fails
JobSearchReturns(k, found) ==
  /\ jobPc[k] = "search"
  /\ LET items == JobItems(k, found)
     IN IF items = <<>>
        THEN JobEnds(k)
        ELSE /\ jobBatch' = [jobBatch EXCEPT ![k] = ItemIds(items)]
             /\ jobPc' = [jobPc EXCEPT ![k] = "ai"]
             /\ UNCHANGED <<isProcessing, lastSkip>>
  /\ UNCHANGED <<jobResult, esVars, othersSched>>

\* what searchEmails answers while the store answers every request: the hits,
\* or [] when the instance is not connected
AvailableSearchAnswers(k) ==
  IF isConnected["sched"] THEN SearchResults(index, JobFilters(k)) ELSE {<<>>}

JobSearch(k) ==
  \E found \in AvailableSearchAnswers(k) \cup {<<>>} : JobSearchReturns(k, found)

\* the responses the model gives to the calls of a job or a handler: a sample of each kind
SampleCategoryResponses ==
  { Resp("errorOther", NoFields), Resp("nobrace", NoFields),
    Resp("json", [label |-> "Interested", confidence |-> 95, reasoningIsArray |-> TRUE]),
    Resp("json", [label |-> "Not Interested", confidence |-> NaN, reasoningIsArray |-> TRUE]) }
SampleSentimentResponses ==
  { Resp("json", [label |-> "Positive", confidence |-> 85, reasoningIsArray |-> FALSE]) }
SampleIntentResponses ==
  { Resp("json", [label |-> "Inquiry", confidence |-> 75, reasoningIsArray |-> FALSE]) }
SampleSummaryResponses ==
  { Resp("errorOther", NoFields),
    Resp("text", [label |-> "empty", confidence |-> NaN, reasoningIsArray |-> FALSE]),
    Resp("text", [label |-> "short", confidence |-> NaN, reasoningIsArray |-> FALSE]) }

\* the sentiment and intent answers to the requests of a job: the sample, and the
\* pair that the spam rule of combineModelResults looks for
JobSentimentResponses ==
  SampleSentimentResponses \cup
  { Resp("json", [label |-> "Negative", confidence |-> 85, reasoningIsArray |-> FALSE]) }
JobIntentResponses ==
  SampleIntentResponses \cup
  { Resp("json", [label |-> "Informational", confidence |-> 75, reasoningIsArray |-> FALSE]) }

\* the values the job's AIService can return for the item
JobAIOutcomes(k) ==
  IF k = "summaries"
  THEN {[result |-> NoResult, summary |-> x] :
          x \in SummarizeOutcomes(isValidKey, SampleSummaryResponses)}
  ELSE {[result |-> x, summary |-> Absent] :
          x \in CategorizeOutcomes(isValidKey, SampleCategoryResponses,
                                   JobSentimentResponses, JobIntentResponses)}

\* await categorizeEmail(email) / summarizeEmail(email) returns
JobAIReturns(k, out) ==
  /\ jobPc[k] = "ai"
  /\ jobResult' = [jobResult EXCEPT ![k] = out]
  /\ jobPc' = [jobPc EXCEPT ![k] = "update"]
  /\ UNCHANGED <<isProcessing, jobBatch, lastSkip, esVars, othersSched>>

JobAI(k) == \E out \in JobAIOutcomes(k) : JobAIReturns(k, out)

\* the values the AIService returns while the external service answers every call
AnsweredSummaries(valid) ==
  {[result |-> NoResult, summary |-> x] :
     x \in SummarizeOutcomes(valid, {r \in SampleSummaryResponses : Thrown(r) = "none"})}
AnsweredCategories(valid) ==
  {[result |-> x, summary |-> Absent] :
     x \in CategorizeOutcomes(valid, {r \in SampleCategoryResponses : Thrown(r) = "none"},
                              SampleSentimentResponses, SampleIntentResponses)}
AnsweredWithKey == [k \in JobKinds |->
  IF k = "summaries" THEN AnsweredSummaries(TRUE) ELSE AnsweredCategories(TRUE)]
AnsweredWithoutKey == [k \in JobKinds |->
  IF k = "summaries" THEN AnsweredSummaries(FALSE) ELSE AnsweredCategories(FALSE)]
AvailableAIOutcomes(k) == IF isValidKey THEN AnsweredWithKey[k] ELSE AnsweredWithoutKey[k]

\* await updateEmailAIResults(...) / updateEmailSummary(...) returns
JobUpdateReturns(k, ok) ==
  /\ jobPc[k] = "update"
  /\ LET id == Head(jobBatch[k])
         r == jobResult[k]
     IN index' =
          IF ~isConnected["sched"] \/ ~ok THEN index
          ELSE IF k = "summaries" THEN StoreUpdateSummary(index, id, r.summary)
          ELSE StoreUpdateAIResults(index, id, r.result.category,
                                    r.result.confidence, r.result.reasoning)
  /\ jobPc' = [jobPc EXCEPT ![k] = "delay"]
  /\ jobResult' = [jobResult EXCEPT ![k] = NoReturn]
  /\ UNCHANGED <<isProcessing, jobBatch, lastSkip,
                 isConnected, connectionAttempts, othersSched>>

JobUpdate(k) == \E ok \in BOOLEAN : JobUpdateReturns(k, ok)

\* await this.delay(1000) returns: the next item, or the end of the job
JobDelay(k) ==
  /\ jobPc[k] = "delay"
  /\ IF Tail(jobBatch[k]) = <<>>
     THEN JobEnds(k)
     ELSE /\ jobBatch' = [jobBatch EXCEPT ![k] = Tail(@)]
          /\ jobPc' = [jobPc EXCEPT ![k] = "ai"]
          /\ UNCHANGED <<isProcessing, lastSkip>>
  /\ UNCHANGED <<jobResult, esVars, othersSched>>

\* the probe of the processor's ElasticsearchService
SchedPing(ok) ==
  /\ Ping("sched", ok)
  /\ UNCHANGED <<schedVars, othersSched>>

\* startScheduledProcessing: the periods of the three setInterval timers, milliseconds
UncategorizedPeriod == 1800000
LowConfidencePeriod == 3600000
SummariesPeriod == 7200000

Period(k) ==
  CASE k = "uncategorized" -> UncategorizedPeriod
    [] k = "lowConfidence" -> LowConfidencePeriod
    [] OTHER               -> SummariesPeriod

\* the three timers are registered in one call, at elapsed = 0
TimerInit ==
  /\ elapsed = 0
  /\ expired = {}

\* the next expiry: every timer whose period divides the elapsed time is due. A run
\* takes about a second per item and has ended before the next expiry, 30 minutes
\* later, so the only ticks that meet a running job are those of one expiry
TimersExpire ==
  /\ expired = {}
  /\ ~isProcessing
  /\ elapsed' = (elapsed + UncategorizedPeriod) % SummariesPeriod
  /\ expired' = {k \in JobKinds : elapsed' % Period(k) = 0}
  /\ UNCHANGED <<schedVars, esVars, othersTimer>>

\* the callback of an expired timer runs; the timers that expire at the same
\* millisecond belong to different timer lists and run in an order that the
\* program does not determine
TimerFires(k) ==
  /\ k \in expired
  /\ expired' = expired \ {k}
  /\ JobCall(k)
  /\ UNCHANGED <<elapsed, jobResult, esVars, othersTimer>>

-----------------------------------------------------------------------------
(* AIService.checkRateLimit *)

requestLimit == 15
requestWindow == 60000

\* concurrent callers of one AIService (handlers of emitted emails, a job)
NumCallers == 3
Callers == 1..NumCallers

\* Date.now() when the process starts, the step of the clock, and its last value
StartTime == 100000
TimeStep == 20000
MaxTime == 220000

\* the history holds at most this many admissions
MaxAdmitted == 18

\* the admissions that are not older than the window start
Since(seq, start) == SelectSeq(seq, LAMBDA t : t >= start)

\* this.requestCount = 1 after the wait
CountAfterWait == 1

RateInit ==
  /\ clock = StartTime
  /\ requestCount = 0
  /\ lastRequestTime = 0
  /\ rlPc = [c \in Callers |-> "idle"]
  /\ rlWake = [c \in Callers |-> 0]
  /\ admitted = <<>>

\* a wait of a whole window, whatever has passed of the current one
TimeToWait_WholeWindow(now, last) == requestWindow

\* const timeToWait = this.requestWindow - (now - this.lastRequestTime)
TimeToWait(now, last) == requestWindow - (now - last)

\* checkRateLimit up to its return or its await
CheckRateLimit(c) ==
  /\ rlPc[c] = "idle"
  /\ Len(admitted) < MaxAdmitted
  /\ LET now   == clock
         reset == now - lastRequestTime > requestWindow
         count == IF reset THEN 0 ELSE requestCount
         last  == IF reset THEN now ELSE lastRequestTime
         timeToWait == TimeToWait(now, last)
     IN /\ lastRequestTime' = last
        /\ IF count < requestLimit
           THEN /\ requestCount' = count + 1
                /\ admitted' = Append(Since(admitted, last), now)
                /\ UNCHANGED <<rlPc, rlWake>>
           ELSE IF timeToWait > 0
           THEN /\ requestCount' = count
                /\ rlPc' = [rlPc EXCEPT ![c] = "delay"]
                /\ rlWake' = [rlWake EXCEPT ![c] = now + timeToWait]
                /\ admitted' = Since(admitted, last)
           ELSE /\ requestCount' = count
                /\ admitted' = Append(Since(admitted, last), now)
                /\ UNCHANGED <<rlPc, rlWake>>
  /\ UNCHANGED <<clock, othersRate>>

\* await this.delay(timeToWait) returns: the rest of checkRateLimit
DelayReturns(c) ==
  /\ rlPc[c] = "delay"
  /\ clock >= rlWake[c]
  /\ requestCount' = CountAfterWait
  /\ lastRequestTime' = clock
  /\ admitted' = Append(Since(admitted, clock), clock)
  /\ rlPc' = [rlPc EXCEPT ![c] = "idle"]
  /\ rlWake' = [rlWake EXCEPT ![c] = 0]
  /\ UNCHANGED <<clock, othersRate>>

\* time passes, up to the next timer that is due
Min(a, b) == IF a < b THEN a ELSE b

NextWake ==
  LET due == {rlWake[c] : c \in {x \in Callers : rlPc[x] = "delay"}}
  IN IF due = {} THEN MaxTime ELSE CHOOSE t \in due : \A u \in due : t <= u

Tick ==
  /\ clock < MaxTime
  /\ \A c \in Callers : rlPc[c] = "delay" => rlWake[c] > clock
  /\ clock' = Min(Min(clock + TimeStep, NextWake), MaxTime)
  /\ UNCHANGED <<requestCount, lastRequestTime, rlPc, rlWake, admitted,
                 othersRate>>

-----------------------------------------------------------------------------
(* ImapService: connections, backfill, polling, processMessage *)

Accounts == {"account1", "account2"}

\* one message in each folder, both of the last day; one carries no Message-ID
OneMessageEach ==
  [a \in Accounts |->
     IF a = "account1"
     THEN { [seqno |-> 1, messageId |-> "", date |-> 95000] }
     ELSE { [seqno |-> 1, messageId |-> "<m1>", date |-> 90000] }]

\* an empty folder for account1, two messages in the folder of account2
TwoMessagesInOne ==
  [a \in Accounts |->
     IF a = "account1"
     THEN {}
     ELSE { [seqno |-> 1, messageId |-> "<m1>", date |-> 90000],
            [seqno |-> 2, messageId |-> "<m2>", date |-> 91000] }]

\* the messages a search of the folder finds
Mailbox(a) == mailbox[a]

\* setInterval(..., 30000) of setupIdleListener
pollInterval == 30000

\* the last value of the clock in SpecIngest, and the number of handler slots
IngestEndTime == 130000
MaxHandlers == 2

\* `${config.accountId}-${seqno}-${parsed.messageId || Date.now()}`
EmailId(accountId, seqno, messageId, now) ==
  [accountId |-> accountId, seqno |-> seqno, messageId |-> messageId,
   time |-> IF messageId # "" THEN 0 ELSE now]

\* the Email processMessage builds from a parsed message
NormalizedEmail(a, m, now) ==
  [id |-> EmailId(a, m.seqno, m.messageId, now),
   accountId |-> a, messageId |-> m.messageId, date |-> m.date,
   aiCategory |-> None, aiConfidence |-> None, aiReasoning |-> None, summary |-> None]

FreeSlot == [pc |-> "free"]

\* connectAllAccounts has called connectAccount for each configuration, and each
\* of them has called imap.connect()
ImapInit(folders) ==
  /\ acctState = [a \in Accounts |-> "connecting"]
  /\ pollAt = [a \in Accounts |-> 0]
  /\ pending = {}
  /\ handlers = [n \in 1..MaxHandlers |-> FreeSlot]
  /\ reindexed = {}
  /\ mailbox = folders
  /\ connResolved = [a \in Accounts |-> FALSE]
  /\ errorFired = [a \in Accounts |-> FALSE]
  /\ isReady = FALSE
  /\ dropped = {}

IngestInit == ImapInit(OneMessageEach)

\* the 'ready' event: the connection is stored and openBox is called
ImapReady(a) ==
  /\ acctState[a] = "connecting"
  /\ acctState' = [acctState EXCEPT ![a] = "opening"]
  /\ UNCHANGED <<pollAt, pending, handlers, reindexed, clock, esVars, othersIngest>>

\* an error listener that leaves the promise of connectAccount pending
ImapError_Unresolved(a) ==
  /\ acctState[a] = "connecting"
  /\ acctState' = [acctState EXCEPT ![a] = "failed"]
  /\ errorFired' = [errorFired EXCEPT ![a] = TRUE]
  /\ UNCHANGED <<pollAt, pending, handlers, reindexed, mailbox, connResolved, isReady,
                 clock, esVars, othersConn, parseVars>>

\* the 'error' event before 'ready' (rejected credentials, a transport error), or a
\* placeholder password, or imap.connect() throwing: the promise is resolved and the
\* account stays unconnected
ImapError(a) ==
  /\ acctState[a] = "connecting"
  /\ acctState' = [acctState EXCEPT ![a] = "failed"]
  /\ connResolved' = [connResolved EXCEPT ![a] = TRUE]
  /\ errorFired' = [errorFired EXCEPT ![a] = TRUE]
  /\ UNCHANGED <<pollAt, pending, handlers, reindexed, mailbox, isReady, clock, esVars,
                 othersConn, parseVars>>

\* the 'error' event after 'ready': the once-listener logs and resolves the promise
\* again; the connection stays in the map and the polling timer stays registered
ImapTransportError(a) ==
  /\ acctState[a] \in {"opening", "watching"}
  /\ ~errorFired[a]
  /\ errorFired' = [errorFired EXCEPT ![a] = TRUE]
  /\ connResolved' = [connResolved EXCEPT ![a] = TRUE]
  /\ UNCHANGED <<acctState, pollAt, pending, handlers, reindexed, mailbox, isReady, clock,
                 esVars, othersConn, parseVars>>

\* await Promise.all(connectionPromises) returns: this.isReady = true
ConnectAllReturns ==
  /\ ~isReady
  /\ \A a \in Accounts : connResolved[a]
  /\ isReady' = TRUE
  /\ UNCHANGED <<acctState, pollAt, pending, handlers, reindexed, mailbox, connResolved,
                 errorFired, clock, esVars, othersConn, parseVars>>

\* the accounts in this.connections: set at 'ready', deleted at 'end'
Connections == {a \in Accounts : acctState[a] # "connecting" /\ ~errorFired[a] /\ ~connEnded[a]}

EndInit ==
  /\ connEnded = [a \in Accounts |-> FALSE]
  /\ exited = FALSE

\* the 'end' event of an established connection (the server or the network closed
\* it): the once-listener logs and deletes the connection from the map
ImapEnd(a) ==
  /\ acctState[a] \in {"opening", "watching"}
  /\ ~connEnded[a]
  /\ connEnded' = [connEnded EXCEPT ![a] = TRUE]
  /\ UNCHANGED <<exited, othersEnd>>

\* SIGTERM / SIGINT: disconnectAll ends every connection of the map and clears the
\* map, then process.exit(0)
DisconnectAll ==
  /\ connEnded' = [a \in Accounts |-> connEnded[a] \/ a \in Connections]
  /\ exited' = TRUE
  /\ UNCHANGED othersEnd

\* the messages a search-and-fetch streams to processMessage
Fetched(a, kind, at, searchOk) ==
  IF searchOk
  THEN {[account |-> a, message |-> m, fetch |-> kind, at |-> at] : m \in Mailbox(a)}
  ELSE {}

\* the openBox callback: on success fetchRecentEmails and setupIdleListener
\* (a connection that has reported an error serves no later request)
OpenBox(a, ok, searchOk) ==
  /\ acctState[a] = "opening"
  /\ errorFired[a] => ~ok
  /\ IF ok
     THEN /\ acctState' = [acctState EXCEPT ![a] = "watching"]
          /\ pending' = pending \cup Fetched(a, "backfill", clock, searchOk)
          /\ pollAt' = [pollAt EXCEPT ![a] = clock + pollInterval]
     ELSE /\ acctState' = [acctState EXCEPT ![a] = "failed"]
          /\ UNCHANGED <<pending, pollAt>>
  /\ connResolved' = [connResolved EXCEPT ![a] = TRUE]
  /\ UNCHANGED <<handlers, reindexed, mailbox, errorFired, isReady, clock, esVars,
                 othersConn, parseVars>>

\* the polling timer fires: checkForNewEmails
CheckForNewEmails(a, searchOk) ==
  /\ acctState[a] = "watching"
  /\ clock >= pollAt[a]
  /\ errorFired[a] => ~searchOk
  /\ pollAt' = [pollAt EXCEPT ![a] = pollAt[a] + pollInterval]
  /\ pending' = pending \cup Fetched(a, "poll", pollAt[a], searchOk)
  /\ UNCHANGED <<acctState, handlers, reindexed, clock, esVars, othersIngest>>

\* a parse error that ends the whole fetch: the other messages of it are lost
ProcessMessage_AbortsFetch(t, parsed) ==
  /\ t \in pending
  /\ IF parsed
     THEN /\ pending' = pending \ {t}
          /\ \E n \in 1..MaxHandlers :
               /\ handlers[n].pc = "free"
               /\ \A k \in 1..(n - 1) : handlers[k].pc # "free"
               /\ handlers' = [handlers EXCEPT ![n] =
                     [pc |-> "summarize",
                      email |-> NormalizedEmail(t.account, t.message, clock),
                      aiResult |-> NoResult, alerts |-> <<>>]]
          /\ UNCHANGED dropped
     ELSE /\ pending' = {u \in pending : u.account # t.account \/ u.fetch # t.fetch
                                         \/ u.at # t.at}
          /\ dropped' = dropped \cup {t}
          /\ UNCHANGED handlers
  /\ UNCHANGED <<acctState, pollAt, reindexed, clock, esVars, othersConn, connVars>>

\* processMessage: simpleParser ends; on success the Email is emitted and the
\* newEmail handler starts with it
ProcessMessage(t, parsed) ==
  /\ t \in pending
  /\ pending' = pending \ {t}
  /\ IF parsed
     THEN /\ \E n \in 1..MaxHandlers :
               /\ handlers[n].pc = "free"
               /\ \A k \in 1..(n - 1) : handlers[k].pc # "free"
               /\ handlers' = [handlers EXCEPT ![n] =
                     [pc |-> "summarize",
                      email |-> NormalizedEmail(t.account, t.message, clock),
                      aiResult |-> NoResult, alerts |-> <<>>]]
          /\ UNCHANGED dropped
     ELSE /\ dropped' = dropped \cup {t}
          /\ UNCHANGED handlers
  /\ UNCHANGED <<acctState, pollAt, reindexed, clock, esVars, othersConn, connVars>>

\* 30 seconds pass
IngestTick ==
  /\ clock + pollInterval <= IngestEndTime
  /\ clock' = clock + pollInterval
  /\ UNCHANGED <<acctState, pollAt, pending, handlers, reindexed, esVars, othersIngest>>

-----------------------------------------------------------------------------
(* The newEmail handler of the entry point *)

\* the responses the model gives to the calls of a handler
HandlerCategoryResponses ==
  { Resp("errorOther", NoFields),
    Resp("json", [label |-> "Interested", confidence |-> 95, reasoningIsArray |-> TRUE]) }
HandlerSummaryResponses ==
  { Resp("text", [label |-> "short", confidence |-> NaN, reasoningIsArray |-> FALSE]) }

\* await aiService.summarizeEmail(email) returns
HandlerSummarize(n) ==
  /\ handlers[n].pc = "summarize"
  /\ \E x \in SummarizeOutcomes(isValidKey, HandlerSummaryResponses) :
       handlers' = [handlers EXCEPT ![n].email.summary = Some(x), ![n].pc = "index"]
  /\ UNCHANGED <<acctState, pollAt, pending, reindexed, clock, esVars, othersIngest>>

\* indexEmail: a no-op when the instance is not connected or the store call fails
IndexEmail(inst, email, ok) ==
  index' = IF isConnected[inst] /\ ok THEN StoreIndex(index, email) ELSE index

\* await elasticsearchService.indexEmail(emailWithSummary) returns
HandlerIndex(n, ok) ==
  /\ handlers[n].pc = "index"
  /\ IndexEmail("main", handlers[n].email, ok)
  /\ handlers' = [handlers EXCEPT ![n].pc = "categorize"]
  /\ reindexed' = IF isConnected["main"] /\ ok
                      /\ \E d \in index : d.id = handlers[n].email.id
                   THEN reindexed \cup {handlers[n].email.id}
                   ELSE reindexed
  /\ UNCHANGED <<acctState, pollAt, pending, clock, isConnected, connectionAttempts, othersIngest>>

\* await aiService.categorizeEmail(emailWithSummary) returns
HandlerCategorize(n) ==
  /\ handlers[n].pc = "categorize"
  /\ \E x \in CategorizeOutcomes(isValidKey, HandlerCategoryResponses,
                                  SampleSentimentResponses, SampleIntentResponses) :
       handlers' = [handlers EXCEPT ![n].aiResult = x, ![n].pc = "update"]
  /\ UNCHANGED <<acctState, pollAt, pending, reindexed, clock, esVars, othersIngest>>

\* updateEmailAIResults: a no-op when the instance is not connected or the store
\* call fails (also when there is no document with the id)
UpdateEmailAIResults(inst, id, r, ok) ==
  index' = IF isConnected[inst] /\ ok
           THEN StoreUpdateAIResults(index, id, r.category, r.confidence, r.reasoning)
           ELSE index

\* a handler that goes on to the notifications without its update call
HandlerUpdate_NoUpdateCall(n, ok) ==
  /\ handlers[n].pc = "update"
  /\ handlers' = IF handlers[n].aiResult.category = "Interested"
                 THEN [handlers EXCEPT ![n].pc = "slack"]
                 ELSE [handlers EXCEPT ![n] = FreeSlot]
  /\ UNCHANGED <<acctState, pollAt, pending, reindexed, clock, esVars, othersIngest>>

\* await elasticsearchService.updateEmailAIResults(...) returns; the handler goes on
\* to the notifications when the category is Interested, and ends otherwise
HandlerUpdate(n, ok) ==
  /\ handlers[n].pc = "update"
  /\ UpdateEmailAIResults("main", handlers[n].email.id, handlers[n].aiResult, ok)
  /\ handlers' = IF handlers[n].aiResult.category = "Interested"
                 THEN [handlers EXCEPT ![n].pc = "slack"]
                 ELSE [handlers EXCEPT ![n] = FreeSlot]
  /\ UNCHANGED <<acctState, pollAt, pending, reindexed, clock, isConnected, connectionAttempts,
                 othersIngest>>

\* WebhookService: how one call of sendSlackNotification / sendExternalWebhook ends:
\* the URL is not configured (warn, return), or the one axios.post succeeds or fails
AlertOutcomes == {"unconfigured", "sent", "failed"}

\* a handler that stops when the post to Slack has failed
AfterSlack_StopOnFailure(outcome) == IF outcome = "failed" THEN "free" ELSE "webhook"

\* sendSlackNotification catches the error of its post, so the handler's next
\* statement runs whatever the outcome was
AfterSlack(outcome) == "webhook"

\* the handler's step when sendSlackNotification returns
SlackReturns(n, outcome) ==
  /\ handlers[n].pc = "slack"
  /\ handlers' = IF AfterSlack(outcome) = "free"
                 THEN [handlers EXCEPT ![n] = FreeSlot]
                 ELSE [handlers EXCEPT ![n].pc = AfterSlack(outcome),
                                       ![n].alerts = Append(@, "slack")]

\* await webhookService.sendSlackNotification(updatedEmail) returns
HandlerSlack(n, outcome) ==
  /\ SlackReturns(n, outcome)
  /\ UNCHANGED <<acctState, pollAt, pending, reindexed, clock, esVars, othersIngest>>

\* the handler's step when sendExternalWebhook returns: the handler logs and ends
WebhookReturns(n, outcome) ==
  /\ handlers[n].pc = "webhook"
  /\ handlers' = [handlers EXCEPT ![n] = FreeSlot]

\* await webhookService.sendExternalWebhook(updatedEmail) returns; the handler logs
\* and ends
HandlerWebhook(n, outcome) ==
  /\ WebhookReturns(n, outcome)
  /\ UNCHANGED <<acctState, pollAt, pending, reindexed, clock, esVars, othersIngest>>

\* the webhooks of WebhookService
Hooks == {"slack", "webhook"}

AlertInit == delivered = {}

\* the posts of one hook for one message that succeeded so far
DeliveredTo(hook, id) == {r \in delivered : r.hook = hook /\ r.id = id}

\* sendSlackNotification / sendExternalWebhook post whenever the URL is configured:
\* the service keeps no record of the messages it has posted
MayPost(hook, id) == TRUE

\* the history of the posts: the first and the second post that succeeded
Record(hook, id, outcome) ==
  IF outcome = "sent" /\ Cardinality(DeliveredTo(hook, id)) < 2
  THEN delivered \cup {[hook |-> hook, id |-> id,
                        nth |-> Cardinality(DeliveredTo(hook, id)) + 1]}
  ELSE delivered

\* the post to Slack of handler n ends
SlackPost(n, outcome) ==
  /\ SlackReturns(n, outcome)
  /\ outcome = "sent" => MayPost("slack", handlers[n].email.id)
  /\ delivered' = Record("slack", handlers[n].email.id, outcome)
  /\ UNCHANGED othersAlert

\* the post to the external webhook of handler n ends
WebhookPost(n, outcome) ==
  /\ WebhookReturns(n, outcome)
  /\ outcome = "sent" => MayPost("webhook", handlers[n].email.id)
  /\ delivered' = Record("webhook", handlers[n].email.id, outcome)
  /\ UNCHANGED othersAlert

\* the probe of the entry point's ElasticsearchService
MainPing(ok) ==
  /\ ok \/ connectionAttempts["main"] < MaxFailedPings
  /\ Ping("main", ok)
  /\ UNCHANGED <<acctState, pollAt, pending, handlers, reindexed, clock, othersIngest>>

-----------------------------------------------------------------------------
(* ElasticsearchService: one call of an operation, from its guard to its return *)

OpNames == {"indexEmail", "updateEmailAIResults", "updateEmailSummary",
            "getEmailById", "searchEmails"}

\* what the store does with a request: it answers, or the call fails (transport
\* error, timeout, rejected request)
StoreAnswers == {"ok", "error"}

\* the value an operation returns when it sends nothing or its catch block runs:
\* undefined (Promise<void>), null, or []
EmptyValue(op) ==
  [shape |-> CASE op = "searchEmails" -> "list"
               [] op = "getEmailById" -> "null"
               [] OTHER               -> "void",
   items |-> <<>>]

\* a catch block that lets the error through
OnStoreError_Rethrow(op) == [raised |-> TRUE, value |-> EmptyValue(op)]

\* the catch block of an operation: logs and returns the empty value
OnStoreError(op) == [raised |-> FALSE, value |-> EmptyValue(op)]

\* if (!this.isConnected) { console.warn(...); return / return null / return [] }
NotConnectedReturn(op) == [raised |-> FALSE, value |-> EmptyValue(op)]

NoOp == [op |-> "none", inst |-> "none", connected |-> FALSE, answer |-> "none",
         sent |-> FALSE, raised |-> FALSE, value |-> EmptyValue("none"),
         filters |-> NoFilters]

StoreOpInit == lastOp = NoOp

\* the record of a call: sent tells whether a request went to the store
OpRecord(op, inst, answer, out, filters) ==
  [op |-> op, inst |-> inst, connected |-> isConnected[inst], answer |-> answer,
   sent |-> isConnected[inst], raised |-> out.raised, value |-> out.value,
   filters |-> filters]

\* the outcome of an operation whose request, when it is answered, gives value v
OpOutcome(op, inst, answer, v) ==
  IF ~isConnected[inst] THEN NotConnectedReturn(op)
  ELSE IF answer = "error" THEN OnStoreError(op)
  ELSE [raised |-> FALSE, value |-> v]

\* the emails and results the callers pass in this specification
StoreEmails ==
  { [id |-> EmailId("account1", 1, "<m1>", 0), accountId |-> "account1",
     messageId |-> "<m1>", date |-> 95000,
     aiCategory |-> None, aiConfidence |-> None, aiReasoning |-> None,
     summary |-> Some("model summary")],
    [id |-> EmailId("account2", 1, "<m1>", 0), accountId |-> "account2",
     messageId |-> "<m1>", date |-> 90000,
     aiCategory |-> None, aiConfidence |-> None, aiReasoning |-> None,
     summary |-> None] }
StoreIds == {e.id : e \in StoreEmails}
StoreResults ==
  { [category |-> "Interested", confidence |-> 95, reasoning |-> ModelReasoning],
    [category |-> "Interested", confidence |-> 50, reasoning |-> ModelReasoning],
    [category |-> "Interested", confidence |-> NaN, reasoning |-> ModelReasoning] }

\* indexEmail(email), on the instance of the entry point
OpIndexEmail(email, answer) ==
  /\ IndexEmail("main", email, answer = "ok")
  /\ lastOp' = OpRecord("indexEmail", "main", answer,
                        OpOutcome("indexEmail", "main", answer, EmptyValue("indexEmail")),
                        NoFilters)
  /\ UNCHANGED <<isConnected, connectionAttempts, othersStoreOp>>

\* updateEmailAIResults(id, category, confidence, reasoning), on the instance of the
\* entry point or of the processor; the store answers 404 when it has no such document
OpUpdateEmailAIResults(inst, id, r, answer) ==
  /\ UpdateEmailAIResults(inst, id, r, answer = "ok")
  /\ LET a == IF answer = "ok" /\ ~\E d \in index : d.id = id THEN "error" ELSE answer
     IN lastOp' = OpRecord("updateEmailAIResults", inst, a,
                           OpOutcome("updateEmailAIResults", inst, a,
                                     EmptyValue("updateEmailAIResults")),
                           NoFilters)
  /\ UNCHANGED <<isConnected, connectionAttempts, othersStoreOp>>

\* updateEmailSummary(id, summary), on the instance of the processor
UpdateEmailSummary(inst, id, summary, ok) ==
  index' = IF isConnected[inst] /\ ok THEN StoreUpdateSummary(index, id, summary) ELSE index

OpUpdateEmailSummary(id, summary, answer) ==
  /\ UpdateEmailSummary("sched", id, summary, answer = "ok")
  /\ LET a == IF answer = "ok" /\ ~\E d \in index : d.id = id THEN "error" ELSE answer
     IN lastOp' = OpRecord("updateEmailSummary", "sched", a,
                           OpOutcome("updateEmailSummary", "sched", a,
                                     EmptyValue("updateEmailSummary")),
                           NoFilters)
  /\ UNCHANGED <<isConnected, connectionAttempts, othersStoreOp>>

\* a lookup that answers an id without a document with an empty document
GetEmailById_EmptyDocument(inst, id, answer) ==
  LET found == {d \in index : d.id = id}
      empty == [id |-> id, accountId |-> id.accountId, messageId |-> id.messageId,
                date |-> 0, aiCategory |-> None, aiConfidence |-> None,
                aiReasoning |-> None, summary |-> None]
  IN [answer |-> answer,
      out |-> OpOutcome("getEmailById", inst, answer,
                        [shape |-> "doc",
                         items |-> IF found = {} THEN <<empty>>
                                   ELSE <<CHOOSE d \in found : TRUE>>])]

\* getEmailById(id): result.body._source, or null (404 and every other error)
GetEmailById(inst, id, answer) ==
  LET found == {d \in index : d.id = id}
      a == IF answer = "ok" /\ found = {} THEN "error" ELSE answer
  IN [answer |-> a,
      out |-> OpOutcome("getEmailById", inst, a,
                        [shape |-> "doc",
                         items |-> IF found = {} THEN <<>> ELSE <<CHOOSE d \in found : TRUE>>])]

OpGetEmailById(id, answer) ==
  /\ LET g == GetEmailById("api", id, answer)
     IN lastOp' = OpRecord("getEmailById", "api", g.answer, g.out, NoFilters)
  /\ UNCHANGED <<esVars, othersStoreOp>>

\* searchEmails('', filters): the hits in the order the store returns them
SearchEmails(inst, filters, answer) ==
  {OpOutcome("searchEmails", inst, answer, [shape |-> "list", items |-> hits]) :
     hits \in SearchResults(index, filters)}

\* the filters the search route builds from the query parameters aiCategory and
\* minConfidence ('' stands for a parameter that is not given)
RouteConfidences == {"", "0", "0.6"}
ParseFloat(text) == CASE text = "0" -> 0 [] text = "0.6" -> 60 [] OTHER -> NaN
RouteFilters(aiCategory, minConfidence) ==
  [aiCategory |-> IF aiCategory # "" THEN Some(aiCategory) ELSE None,
   minConfidence |-> IF minConfidence # "" THEN Some(ParseFloat(minConfidence)) ELSE None]

\* GET /search?aiCategory=..&minConfidence=..: the route, the controller, the service
OpSearchEmails(inst, filters, answer) ==
  /\ \E out \in SearchEmails(inst, filters, answer) :
       lastOp' = OpRecord("searchEmails", inst, answer, out, filters)
  /\ UNCHANGED <<esVars, othersStoreOp>>

\* the probe of any of the three instances
StorePing(inst, ok) ==
  /\ ok \/ connectionAttempts[inst] < MaxFailedPings
  /\ Ping(inst, ok)
  /\ UNCHANGED <<lastOp, othersStoreOp>>

-----------------------------------------------------------------------------
(* The feedback log: AIService.processUserFeedback / getFeedbackStats and the routes *)

\* the log holds at most this many records, and this many submissions wait at once
MaxRecords == 3
MaxSubmissions == 2

\* what the file system does with the read and the write of a call
FileOutcomes == {"ok", "readFails", "writeFails"}

NoFile == [exists |-> FALSE, records |-> <<>>]

\* the entry processUserFeedback builds (timestamp and the text snapshot left out)
FeedbackEntry(emailId, originalCategory, correctedCategory) ==
  [emailId |-> emailId, originalCategory |-> originalCategory,
   correctedCategory |-> correctedCategory]

\* a version that writes the new entry alone
WrittenRecords_Fresh(records, entry) == <<entry>>

\* feedbackData.push(feedbackEntry), then the whole array is written
WrittenRecords(records, entry) == Append(records, entry)

\* processUserFeedback: the file after the call, and whether the entry was written.
\* Without a valid key the constructor returned before it set feedbackFilePath, so
\* the path is '' : existsSync('') is false and writeFileSync('') throws.  Every
\* error is caught and logged; the method returns undefined in all cases.
ProcessUserFeedback(file, entry, io) ==
  LET readThrows  == isValidKey /\ file.exists /\ io = "readFails"
      feedbackData == IF isValidKey /\ file.exists THEN file.records ELSE <<>>
      writeThrows == ~isValidKey \/ io = "writeFails"
  IN IF readThrows \/ writeThrows
     THEN [file |-> file, written |-> FALSE]
     ELSE [file |-> [exists |-> TRUE, records |-> WrittenRecords(feedbackData, entry)],
           written |-> TRUE]

NoAck == [kind |-> "none", correctedCategory |-> "", status |-> 0, written |-> FALSE]

\* corrections[key] = (corrections[key] || 0) + 1, for each entry in order
CorrectionKey(entry) == <<entry.originalCategory, entry.correctedCategory>>
RECURSIVE CountCorrections(_, _)
CountCorrections(records, corrections) ==
  IF records = <<>> THEN corrections
  ELSE LET key == CorrectionKey(Head(records))
           old == IF key \in DOMAIN corrections THEN corrections[key] ELSE 0
       IN CountCorrections(Tail(records),
            [k \in DOMAIN corrections \cup {key} |->
               IF k = key THEN old + 1 ELSE corrections[k]])

NoCorrections == [k \in {} |-> 0]
EmptyStats == [total |-> 0, corrections |-> NoCorrections]

\* no call of getFeedbackStats yet; a call is kept with the records the file held
NoStats == [called |-> FALSE, readOk |-> TRUE, log |-> <<>>, value |-> EmptyStats]

\* getFeedbackStats: zeros when the file does not exist or reading it fails
GetFeedbackStats(file, readOk) ==
  IF ~isValidKey \/ ~file.exists \/ ~readOk THEN EmptyStats
  ELSE [total |-> Len(file.records),
        corrections |-> CountCorrections(file.records, NoCorrections)]

\* the documents the feedback route can look up
FeedbackDocs ==
  { [id |-> EmailId("account1", 1, "<m1>", 0), accountId |-> "account1",
     messageId |-> "<m1>", date |-> 95000,
     aiCategory |-> Some("Interested"), aiConfidence |-> Some(95),
     aiReasoning |-> Some(ModelReasoning), summary |-> Some("model summary")] }
FeedbackIds == {d.id : d \in FeedbackDocs} \cup {EmailId("account1", 9, "<none>", 0)}
SubmittedCategories == {"Not Interested", "Unknown"}

FeedbackIdle ==
  /\ feedbackFile = NoFile
  /\ feedbackCalls = {}
  /\ lastAck = NoAck
  /\ lastStats = NoStats

\* the file of an earlier run may exist
FeedbackInit ==
  /\ feedbackFile \in {NoFile, [exists |-> TRUE, records |-> <<>>]}
  /\ feedbackCalls = {}
  /\ lastAck = NoAck
  /\ lastStats = NoStats

\* POST /:id/feedback up to its first await: the validation, then getEmailById is called
FeedbackSubmit(id, correctedCategory) ==
  /\ IF correctedCategory \notin EmailCategory
     THEN /\ lastAck' = [kind |-> "route", correctedCategory |-> correctedCategory,
                         status |-> 400, written |-> FALSE]
          /\ UNCHANGED feedbackCalls
     ELSE /\ Cardinality(feedbackCalls) < MaxSubmissions
          /\ feedbackCalls' = feedbackCalls \cup
                               {[id |-> id, correctedCategory |-> correctedCategory]}
          /\ UNCHANGED lastAck
  /\ UNCHANGED <<feedbackFile, lastStats, esVars, storeOpVars, othersFeedback>>

\* email.aiCategory || EmailCategory.SPAM
OriginalCategory(email) == IF email.aiCategory = None THEN "Spam" ELSE email.aiCategory[1]

\* await getEmailById returns: 404, or processUserFeedback and the acknowledgement
FeedbackRecord(call, answer, io) ==
  /\ call \in feedbackCalls
  /\ feedbackCalls' = feedbackCalls \ {call}
  /\ LET got == GetEmailById("api", call.id, answer).out.value.items
     IN IF got = <<>>
        THEN /\ lastAck' = [kind |-> "route", correctedCategory |-> call.correctedCategory,
                            status |-> 404, written |-> FALSE]
             /\ UNCHANGED feedbackFile
        ELSE /\ Len(feedbackFile.records) < MaxRecords
             /\ LET r == ProcessUserFeedback(feedbackFile,
                            FeedbackEntry(call.id, OriginalCategory(got[1]),
                                          call.correctedCategory), io)
                IN /\ feedbackFile' = r.file
                   /\ lastAck' = [kind |-> "route",
                                  correctedCategory |-> call.correctedCategory,
                                  status |-> 200, written |-> r.written]
  /\ UNCHANGED <<lastStats, esVars, storeOpVars, othersFeedback>>

\* processUserFeedback called by any other caller, with any category string
DirectFeedback(id, originalCategory, correctedCategory, io) ==
  /\ Len(feedbackFile.records) < MaxRecords
  /\ LET r == ProcessUserFeedback(feedbackFile,
                 FeedbackEntry(id, originalCategory, correctedCategory), io)
     IN /\ feedbackFile' = r.file
        /\ lastAck' = [kind |-> "direct", correctedCategory |-> correctedCategory,
                       status |-> 0, written |-> r.written]
  /\ UNCHANGED <<feedbackCalls, lastStats, esVars, storeOpVars, othersFeedback>>

\* GET /ai/stats
FeedbackStats(readOk) ==
  /\ lastStats' = [called |-> TRUE, readOk |-> readOk, log |-> feedbackFile.records,
                   value |-> GetFeedbackStats(feedbackFile, readOk)]
  /\ UNCHANGED <<feedbackFile, feedbackCalls, lastAck, esVars, storeOpVars, othersFeedback>>

\* the probe of the controller's ElasticsearchService
ApiPing(ok) ==
  /\ ok \/ connectionAttempts["api"] < MaxFailedPings
  /\ Ping("api", ok)
  /\ UNCHANGED <<feedbackVars, storeOpVars, othersFeedback>>

-----------------------------------------------------------------------------
(* combineModelResults and simpleSummarize applied to given arguments *)

\* the confidences getMainCategory can return: a clamped number or NaN
FusionBases == {NaN, 0, 30, 50, 95, 100}
FusionSentimentConfidences == {NaN, 50, 80, 85}
FusionIntentConfidences == {NaN, 70, 75}

FusionInputs ==
  [m : [category : EmailCategory, confidence : FusionBases,
        reasoning : {<<>>, ModelReasoning}],
   s : [sentiment : SentimentLabels, confidence : FusionSentimentConfidences],
   i : [intent : IntentLabels, confidence : FusionIntentConfidences]]

NoFusion == [done |-> FALSE, result |-> NoResult, exact |-> DblNaN]

FusionIdle ==
  /\ fusionIn = [m |-> NoResult, s |-> NoSentiment,
                 i |-> [intent |-> "none", confidence |-> NaN]]
  /\ fusionOut = NoFusion

FusionInit ==
  /\ fusionIn \in FusionInputs
  /\ fusionOut = NoFusion

\* combineModelResults(mainCategory, sentiment, intent, email) returns
Combine ==
  /\ ~fusionOut.done
  /\ fusionOut' = [done |-> TRUE,
                   result |-> CombineModelResults(fusionIn.m, fusionIn.s, fusionIn.i),
                   exact |-> CombineSteps(fusionIn.m, fusionIn.s, fusionIn.i).exact]
  /\ UNCHANGED <<fusionIn, summaryIn, summaryOut, othersPure>>

\* strings are sequences of characters
Ellipsis == <<".", ".", ".">>
SummaryLimit == 100

\* String.prototype.lastIndexOf(ch): the 0-based index of the last ch, or -1
LastIndexOf(str, ch) ==
  LET at == {j \in 1..Len(str) : str[j] = ch}
  IN IF at = {} THEN -1 ELSE (CHOOSE j \in at : \A k \in at : k <= j) - 1

\* substring(0, n)
Substring(str, n) == SubSeq(str, 1, IF Len(str) < n THEN Len(str) ELSE n)

\* simpleSummarize with the ellipsis after every result
SimpleSummarize_AlwaysEllipsis(body, subject) ==
  LET content == subject \o <<".", " ">> \o body
      summary == Substring(content, SummaryLimit)
      lastSpace == LastIndexOf(summary, " ")
  IN (IF lastSpace > 0 THEN Substring(summary, lastSpace) ELSE summary) \o Ellipsis

SimpleSummarize(body, subject) ==
  LET content == subject \o <<".", " ">> \o body
      summary == Substring(content, SummaryLimit)
      lastSpace == LastIndexOf(summary, " ")
  IN IF Len(content) <= SummaryLimit THEN content
     ELSE (IF lastSpace > 0 THEN Substring(summary, lastSpace) ELSE summary) \o Ellipsis

\* the subjects and bodies: words of one length separated by single spaces
MaxWords == 12
WordLengths == {1, 4, 9, 120}
SubjectLengths == {0, 7, 101}
Word(n) == [j \in 1..n |-> "a"]
RECURSIVE Words(_, _)
Words(n, count) ==
  IF count = 0 THEN <<>>
  ELSE IF count = 1 THEN Word(n)
  ELSE Words(n, count - 1) \o <<" ">> \o Word(n)

\* the subject "Meeting" and the body "Hello world, let's meet tomorrow at noon to
\* discuss the proposal in detail"
ExampleSubject == <<"M", "e", "e", "t", "i", "n", "g">>
ExampleBody ==
  <<"H", "e", "l", "l", "o", " ", "w", "o", "r", "l", "d", ",", " ", "l",
    "e", "t", "'", "s", " ", "m", "e", "e", "t", " ", "t", "o", "m", "o",
    "r", "r", "o", "w", " ", "a", "t", " ", "n", "o", "o", "n", " ", "t",
    "o", " ", "d", "i", "s", "c", "u", "s", "s", " ", "t", "h", "e", " ",
    "p", "r", "o", "p", "o", "s", "a", "l", " ", "i", "n", " ", "d", "e",
    "t", "a", "i", "l">>

SummaryInputs ==
  {[subject |-> Word(sl), body |-> Words(wl, count)] :
     sl \in SubjectLengths, wl \in WordLengths, count \in 0..MaxWords}
  \cup {[subject |-> ExampleSubject, body |-> ExampleBody]}

NoSummary == [done |-> FALSE, text |-> <<>>]

SummaryIdle ==
  /\ summaryIn = [subject |-> <<>>, body |-> <<>>]
  /\ summaryOut = NoSummary

SummaryInit ==
  /\ summaryIn \in SummaryInputs
  /\ summaryOut = NoSummary

\* summarizeEmail falls back: return this.simpleSummarize(email.body, email.subject)
Summarize ==
  /\ ~summaryOut.done
  /\ summaryOut' = [done |-> TRUE, text |-> SimpleSummarize(summaryIn.body, summaryIn.subject)]
  /\ UNCHANGED <<summaryIn, fusionIn, fusionOut, othersPure>>

-----------------------------------------------------------------------------
(* The waits of the retry loop of categorizeEmail / summarizeEmail *)

\* let delayMs = 1000
InitialDelayMs == 1000
\* Math.min(..., 30000)
DelayCapMs == 30000

\* Math.random() * 1000, in whole milliseconds
Jitters == {0, 500, 999}

\* the duration a quota error names in "Please retry in <n>s", in milliseconds
\* (retrySeconds * 1000); None when the message names none
RetryAfters == {None, Some(500), Some(7000), Some(45000)}

\* the catch block's new delayMs: the named duration, but not less than the current
\* delayMs; or twice the current delayMs plus the jitter, capped
NextDelay(current, retryAfter, jitter) ==
  IF retryAfter # None
  THEN MathMax(current, retryAfter[1])
  ELSE MathMin(current * 2 + jitter, DelayCapMs)

\* a call starts its retry loop
BackoffInit ==
  /\ delayMs = InitialDelayMs
  /\ waits = <<>>

\* a quota error is caught with retries left: delayMs is set and this.delay awaited
RetryWait(retryAfter, jitter) ==
  /\ Len(waits) < maxRetries
  /\ delayMs' = NextDelay(delayMs, retryAfter, jitter)
  /\ waits' = Append(waits, [named |-> retryAfter, before |-> delayMs,
                             ms |-> NextDelay(delayMs, retryAfter, jitter)])
  /\ UNCHANGED <<esVars, othersBackoff>>

\* the call returns and the next call starts its loop
NextCall ==
  /\ waits # <<>>
  /\ delayMs' = InitialDelayMs
  /\ waits' = <<>>
  /\ UNCHANGED <<esVars, othersBackoff>>

-----------------------------------------------------------------------------
(* The AIService instances of the process *)

\* the instances whose categorizeEmail / summarizeEmail are called: the one of the
\* entry point (used by the newEmail handler) and the one ScheduledProcessor creates
AIInstances == {"main", "sched"}

\* private requestCount: number = 0; private lastRequestTime: number = 0
InstanceInit ==
  /\ instCount = [i \in AIInstances |-> 0]
  /\ instLast = [i \in AIInstances |-> 0]
  /\ instPc = [i \in AIInstances |-> "idle"]
  /\ processAdmitted = 0

\* checkRateLimit of instance i, up to its return or its await: it reads and writes
\* the fields of its own instance
CheckOwnCounter(i) ==
  /\ instPc[i] = "idle"
  /\ LET now   == clock
         reset == now - instLast[i] > requestWindow
         count == IF reset THEN 0 ELSE instCount[i]
         last  == IF reset THEN now ELSE instLast[i]
         timeToWait == TimeToWait(now, last)
     IN /\ instLast' = [instLast EXCEPT ![i] = last]
        /\ IF count < requestLimit
           THEN /\ instCount' = [instCount EXCEPT ![i] = count + 1]
                /\ processAdmitted' = processAdmitted + 1
                /\ UNCHANGED instPc
           ELSE IF timeToWait > 0
           THEN /\ instCount' = [instCount EXCEPT ![i] = count]
                /\ instPc' = [instPc EXCEPT ![i] = "delay"]
                /\ UNCHANGED processAdmitted
           ELSE /\ instCount' = [instCount EXCEPT ![i] = count]
                /\ processAdmitted' = processAdmitted + 1
                /\ UNCHANGED instPc
  /\ UNCHANGED <<esVars, othersInstance>>

ExtraIdle == BackoffInit /\ InstanceInit /\ TimerInit /\ AlertInit /\ EndInit

\* the variables of this part and of the parts before it, in a specification that
\* does not use them
ApiIdle == StoreOpInit /\ FeedbackIdle /\ FusionIdle /\ SummaryIdle /\ ExtraIdle

-----------------------------------------------------------------------------
(* The specifications *)

\* documents in the store when the processor starts: one classified by a failed
\* call, one indexed but never classified and with an empty summary, one classified
SeedDocs ==
  { [id |-> EmailId("account1", 1, "<m1>", 0), accountId |-> "account1", messageId |-> "<m1>", date |-> 3,
     aiCategory |-> Some("Spam"), aiConfidence |-> Some(20),
     aiReasoning |-> Some(<<"AI processing error">>), summary |-> Some("model summary")],
    [id |-> EmailId("account1", 2, "<m2>", 0), accountId |-> "account1", messageId |-> "<m2>", date |-> 2,
     aiCategory |-> None, aiConfidence |-> None,
     aiReasoning |-> None, summary |-> Some("")],
    [id |-> EmailId("account2", 1, "<m3>", 0), accountId |-> "account2", messageId |-> "<m3>", date |-> 2,
     aiCategory |-> Some("Interested"), aiConfidence |-> Some(100),
     aiReasoning |-> Some(ModelReasoning), summary |-> None] }

InitSched ==
  /\ SchedInit
  /\ ESInit
  /\ index = SeedDocs
  /\ AIInit
  /\ RateInit
  /\ IngestInit
  /\ ApiIdle

NextSched ==
  \/ \E k \in JobKinds : TimerTick(k)
  \/ \E k \in JobKinds : JobSearch(k)
  \/ \E k \in JobKinds : JobAI(k)
  \/ \E k \in JobKinds : JobUpdate(k)
  \/ \E k \in JobKinds : JobDelay(k)
  \/ \E ok \in BOOLEAN : SchedPing(ok)

SpecSched == InitSched /\ [][NextSched]_vars

\* the processor while the store and the external service answer every request and
\* the key is valid: pings succeed, searches and updates are served, calls return
InitAvailable == InitSched /\ isValidKey

NextAvailable ==
  \/ \E k \in JobKinds : TimerTick(k)
  \/ \E k \in JobKinds : \E found \in AvailableSearchAnswers(k) : JobSearchReturns(k, found)
  \/ \E k \in JobKinds : \E out \in AvailableAIOutcomes(k) : JobAIReturns(k, out)
  \/ \E k \in JobKinds : JobUpdateReturns(k, TRUE)
  \/ \E k \in JobKinds : JobDelay(k)
  \/ SchedPing(TRUE)

\* an awaited call of the running job returns (one job runs at a time)
JobProgress ==
  \E k \in JobKinds :
    \/ \E found \in AvailableSearchAnswers(k) : JobSearchReturns(k, found)
    \/ \E out \in AvailableAIOutcomes(k) : JobAIReturns(k, out)
    \/ JobUpdateReturns(k, TRUE)
    \/ JobDelay(k)

\* the uncategorized timer's invocation that finds the flag clear
UncategorizedJobStarts == ~AlreadyProcessing /\ TimerTick("uncategorized")

\* setInterval keeps firing the uncategorized timer, and the other jobs set and clear
\* the flag between its firings, so the invocation that starts the job is strongly
\* fair; the probe's ping and the awaited calls of a running job return
FairAvailable ==
  /\ WF_vars(SchedPing(TRUE))
  /\ WF_vars(JobProgress)
  /\ SF_vars(UncategorizedJobStarts)

FairSpecSched == InitAvailable /\ [][NextAvailable]_vars /\ FairAvailable

\* the processor driven by its three timers, while the store and the external
\* service answer every request
NextTimers ==
  \/ TimersExpire
  \/ \E k \in JobKinds : TimerFires(k)
  \/ \E k \in JobKinds : \E found \in AvailableSearchAnswers(k) : JobSearchReturns(k, found)
  \/ \E k \in JobKinds : \E out \in AvailableAIOutcomes(k) : JobAIReturns(k, out)
  \/ \E k \in JobKinds : JobUpdateReturns(k, TRUE)
  \/ \E k \in JobKinds : JobDelay(k)
  \/ SchedPing(TRUE)

DueTimerFires == \E k \in JobKinds : TimerFires(k)

\* the timers keep expiring, every expired timer runs its callback, the probe's
\* ping and the awaited calls of a running job return
FairTimers ==
  /\ WF_vars(TimersExpire)
  /\ WF_vars(DueTimerFires)
  /\ WF_vars(SchedPing(TRUE))
  /\ WF_vars(JobProgress)

FairSpecTimers == InitAvailable /\ [][NextTimers]_vars /\ FairTimers

InitAI ==
  /\ AIInit
  /\ SchedInit
  /\ ESInit
  /\ index = {}
  /\ RateInit
  /\ IngestInit
  /\ ApiIdle

NextAI ==
  \/ CategorizeEmail
  \/ SummarizeEmail
  \/ RateLimitPassed
  \/ \E r \in CategoryResponses : CategoryRequest(r)
  \/ \E r \in SentimentResponses : SentimentRequest(r)
  \/ \E r \in IntentResponses : IntentRequest(r)
  \/ \E r \in SummaryResponses : GenerateRequest(r)
  \/ BackoffDone
  \/ CallReturns

SpecAI == InitAI /\ [][NextAI]_vars

InitIngest ==
  /\ IngestInit
  /\ ESInit
  /\ index = {}
  /\ AIInit
  /\ SchedInit
  /\ RateInit
  /\ ApiIdle

NextIngest ==
  \/ \E a \in Accounts : ImapReady(a)
  \/ \E a \in Accounts : ImapError(a)
  \/ \E a \in Accounts, ok \in BOOLEAN, searchOk \in BOOLEAN : OpenBox(a, ok, searchOk)
  \/ \E a \in Accounts, searchOk \in BOOLEAN : CheckForNewEmails(a, searchOk)
  \/ \E t \in pending : ProcessMessage(t, TRUE)
  \/ IngestTick
  \/ \E n \in 1..MaxHandlers : HandlerSummarize(n)
  \/ \E n \in 1..MaxHandlers, ok \in BOOLEAN : HandlerIndex(n, ok)
  \/ \E n \in 1..MaxHandlers : HandlerCategorize(n)
  \/ \E n \in 1..MaxHandlers, ok \in BOOLEAN : HandlerUpdate(n, ok)
  \/ \E n \in 1..MaxHandlers, o \in AlertOutcomes : HandlerSlack(n, o)
  \/ \E n \in 1..MaxHandlers, o \in AlertOutcomes : HandlerWebhook(n, o)
  \/ \E ok \in BOOLEAN : MainPing(ok)

SpecIngest == InitIngest /\ [][NextIngest]_vars

\* the connections until the process exits, with the 'end' event possible on every
\* established connection; an ended connection serves no request
NextShutdown ==
  /\ ~exited
  /\ \/ \E a \in Accounts : ImapReady(a)
     \/ \E a \in Accounts : ImapEnd(a)
     \/ DisconnectAll
     \/ \E a \in Accounts, ok \in BOOLEAN, searchOk \in BOOLEAN :
          (connEnded[a] => ~ok) /\ OpenBox(a, ok, searchOk)
     \/ \E a \in Accounts, searchOk \in BOOLEAN :
          (connEnded[a] => ~searchOk) /\ CheckForNewEmails(a, searchOk)
     \/ \E t \in pending : ProcessMessage(t, TRUE)
     \/ IngestTick
     \/ \E n \in 1..MaxHandlers : HandlerSummarize(n)
     \/ \E n \in 1..MaxHandlers : HandlerIndex(n, TRUE)
     \/ \E n \in 1..MaxHandlers : HandlerCategorize(n)
     \/ \E n \in 1..MaxHandlers : HandlerUpdate(n, TRUE)

InitShutdown ==
  /\ ImapInit(TwoMessagesInOne)
  /\ ESInit
  /\ index = {}
  /\ AIInit
  /\ ~isValidKey
  /\ SchedInit
  /\ RateInit
  /\ ApiIdle

SpecShutdown == InitShutdown /\ [][NextShutdown]_vars

\* the alerts of the handlers: two messages in one folder, a backfill and a poll, a
\* valid key, no store
InitAlerts ==
  /\ ImapInit(TwoMessagesInOne)
  /\ ESInit
  /\ index = {}
  /\ AIInit
  /\ isValidKey
  /\ SchedInit
  /\ RateInit
  /\ ApiIdle

NextAlerts ==
  \/ \E a \in Accounts : ImapReady(a)
  \/ \E a \in Accounts, ok \in BOOLEAN, searchOk \in BOOLEAN : OpenBox(a, ok, searchOk)
  \/ \E a \in Accounts, searchOk \in BOOLEAN : CheckForNewEmails(a, searchOk)
  \/ \E t \in pending : ProcessMessage(t, TRUE)
  \/ IngestTick
  \/ \E n \in 1..MaxHandlers : HandlerSummarize(n)
  \/ \E n \in 1..MaxHandlers : HandlerIndex(n, TRUE)
  \/ \E n \in 1..MaxHandlers : HandlerCategorize(n)
  \/ \E n \in 1..MaxHandlers : HandlerUpdate(n, TRUE)
  \/ \E n \in 1..MaxHandlers, o \in AlertOutcomes : SlackPost(n, o)
  \/ \E n \in 1..MaxHandlers, o \in AlertOutcomes : WebhookPost(n, o)

SpecAlerts == InitAlerts /\ [][NextAlerts]_vars

\* the connections of ImapService from connectAllAccounts on, with a transport error
\* possible at any time and two messages in one folder; the process runs without an
\* API key and without a store, so that each handler takes its local path
InitImap ==
  /\ ImapInit(TwoMessagesInOne)
  /\ ESInit
  /\ index = {}
  /\ AIInit
  /\ ~isValidKey
  /\ SchedInit
  /\ RateInit
  /\ ApiIdle

NextImap ==
  \/ \E a \in Accounts : ImapReady(a)
  \/ \E a \in Accounts : ImapError(a)
  \/ \E a \in Accounts : ImapTransportError(a)
  \/ ConnectAllReturns
  \/ \E a \in Accounts, ok \in BOOLEAN, searchOk \in BOOLEAN : OpenBox(a, ok, searchOk)
  \/ \E a \in Accounts, searchOk \in BOOLEAN : CheckForNewEmails(a, searchOk)
  \/ \E t \in pending, parsed \in BOOLEAN : ProcessMessage(t, parsed)
  \/ IngestTick
  \/ \E n \in 1..MaxHandlers : HandlerSummarize(n)
  \/ \E n \in 1..MaxHandlers, ok \in BOOLEAN : HandlerIndex(n, ok)
  \/ \E n \in 1..MaxHandlers : HandlerCategorize(n)
  \/ \E n \in 1..MaxHandlers, ok \in BOOLEAN : HandlerUpdate(n, ok)

SpecImap == InitImap /\ [][NextImap]_vars

InitRate ==
  /\ RateInit
  /\ AIInit
  /\ SchedInit
  /\ ESInit
  /\ index = {}
  /\ IngestInit
  /\ ApiIdle

NextRate ==
  \/ \E c \in Callers : CheckRateLimit(c)
  \/ \E c \in Callers : DelayReturns(c)
  \/ Tick

SpecRate == InitRate /\ [][NextRate]_vars

\* the operations of the index called in any order, on a store that starts empty
InitStore ==
  /\ StoreOpInit
  /\ ESInit
  /\ index = {}
  /\ SchedInit
  /\ AIInit /\ isValidKey
  /\ RateInit
  /\ IngestInit
  /\ FeedbackIdle /\ FusionIdle /\ SummaryIdle /\ ExtraIdle

NextStore ==
  \/ \E e \in StoreEmails, a \in StoreAnswers : OpIndexEmail(e, a)
  \/ \E inst \in {"main", "sched"}, id \in StoreIds, r \in StoreResults, a \in StoreAnswers :
       OpUpdateEmailAIResults(inst, id, r, a)
  \/ \E id \in StoreIds, a \in StoreAnswers : OpUpdateEmailSummary(id, "model summary", a)
  \/ \E id \in StoreIds, a \in StoreAnswers : OpGetEmailById(id, a)
  \/ \E c \in {"", "Interested"}, m \in RouteConfidences, a \in StoreAnswers :
       OpSearchEmails("api", RouteFilters(c, m), a)
  \/ \E inst \in Instances, ok \in BOOLEAN : StorePing(inst, ok)

SpecStore == InitStore /\ [][NextStore]_vars

\* feedback submissions, direct calls and statistics over a fixed index
InitFeedback ==
  /\ FeedbackInit
  /\ ESInit
  /\ index = FeedbackDocs
  /\ SchedInit
  /\ AIInit
  /\ RateInit
  /\ IngestInit
  /\ StoreOpInit /\ FusionIdle /\ SummaryIdle /\ ExtraIdle

NextFeedback ==
  \/ \E id \in FeedbackIds, c \in SubmittedCategories : FeedbackSubmit(id, c)
  \/ \E call \in feedbackCalls, a \in StoreAnswers, io \in FileOutcomes :
       FeedbackRecord(call, a, io)
  \/ \E id \in {d.id : d \in FeedbackDocs}, c \in SubmittedCategories, io \in FileOutcomes :
       DirectFeedback(id, "Spam", c, io)
  \/ \E readOk \in BOOLEAN : FeedbackStats(readOk)
  \/ \E ok \in BOOLEAN : ApiPing(ok)

SpecFeedback == InitFeedback /\ [][NextFeedback]_vars

InitFusion ==
  /\ FusionInit
  /\ SummaryIdle /\ StoreOpInit /\ FeedbackIdle /\ ExtraIdle
  /\ ESInit
  /\ index = {}
  /\ SchedInit
  /\ AIInit
  /\ RateInit
  /\ IngestInit

NextFusion == Combine

SpecFusion == InitFusion /\ [][NextFusion]_vars

InitSummary ==
  /\ SummaryInit
  /\ FusionIdle /\ StoreOpInit /\ FeedbackIdle /\ ExtraIdle
  /\ ESInit
  /\ index = {}
  /\ SchedInit
  /\ AIInit
  /\ RateInit
  /\ IngestInit

NextSummary == Summarize

SpecSummary == InitSummary /\ [][NextSummary]_vars

InitBackoff ==
  /\ ApiIdle
  /\ ESInit
  /\ index = {}
  /\ SchedInit
  /\ AIInit
  /\ RateInit
  /\ IngestInit

NextBackoff ==
  \/ \E ra \in RetryAfters, j \in Jitters : RetryWait(ra, j)
  \/ NextCall

SpecBackoff == InitBackoff /\ [][NextBackoff]_vars

\* the calls of the two instances within one window: the clock stands still
InitInstances == InitBackoff

NextInstances == \E i \in AIInstances : CheckOwnCounter(i)

SpecInstances == InitInstances /\ [][NextInstances]_vars

\* the steps of a call in progress: every awaited request, check or delay completes
CallProgress ==
  \/ RateLimitPassed
  \/ \E r \in CategoryResponses : CategoryRequest(r)
  \/ \E r \in SentimentResponses : SentimentRequest(r)
  \/ \E r \in IntentResponses : IntentRequest(r)
  \/ \E r \in SummaryResponses : GenerateRequest(r)
  \/ BackoffDone

FairSpecAI == SpecAI /\ WF_vars(CallProgress)

-----------------------------------------------------------------------------
(* Properties of ScheduledProcessor, under SpecSched *)

Running(k) == jobPc[k] # "idle"

\* C1: at most one reconciliation job runs at a time, and a job invoked while the
\* busy flag is set returns without querying the index, without classifying or
\* summarizing and without updating any item.
C1_OneJobAtATime ==
  /\ [](Cardinality({k \in JobKinds : Running(k)}) <= 1)
  /\ [][\A k \in JobKinds :
          (isProcessing /\ TimerTick(k)) =>
             UNCHANGED <<jobPc, jobBatch, jobResult, index>>]_vars

\* a tick was skipped while a job is in the middle of its batch
C1_Witness ==
  /\ lastSkip # "none"
  /\ \E k \in JobKinds : jobPc[k] \in {"ai", "update", "delay"}

\* C2: the busy flag is set exactly while some job is running; it is clear whenever
\* a job ends (after its batch, after finding nothing, after a failed query), and
\* a skipped invocation leaves it set.
C2_FlagSetWhileRunning ==
  /\ [](isProcessing <=> \E k \in JobKinds : Running(k))
  /\ [][\A k \in JobKinds :
          /\ (jobPc[k] # "idle" /\ jobPc'[k] = "idle") => ~isProcessing'
          /\ (isProcessing /\ TimerTick(k)) => isProcessing']_vars

\* a job has processed an item and ended, and the flag is clear
C2_Witness ==
  /\ index # SeedDocs
  /\ \A k \in JobKinds : ~Running(k)
  /\ ~isProcessing

-----------------------------------------------------------------------------
(* Properties of AIService.categorizeEmail / summarizeEmail, under SpecAI *)

Returned(call) == aiPc = "done" /\ aiCall = call

Last(seq) == seq[Len(seq)]

\* the attempt that ended the call got all three responses
AttemptCompleted == attemptLog # <<>> /\ Last(attemptLog) = "ok"

\* C3: the confidence categorizeEmail returns lies in [0,1] for every outcome of
\* the three model calls.
C3_ConfidenceInUnitInterval ==
  Returned("categorize") =>
     /\ aiReturn.result.confidence >= 0
     /\ aiReturn.result.confidence <= 100

SpamConfirmed ==
  /\ sentResp.kind = "json" /\ sentResp.label = "Negative" /\ sentResp.confidence > 80
  /\ intResp.kind = "json" /\ intResp.label = "Informational" /\ intResp.confidence > 70

C5_SafeDefault ==
  (/\ Returned("categorize")
   /\ \/ catResp.kind = "badjson"
      \/ catResp.kind = "json" /\ catResp.label \notin EmailCategory /\ AttemptCompleted)
  => /\ aiReturn.result.category = "Spam"
     /\ aiReturn.result.confidence \in {30, 45}

\* C6: categorizeEmail always ends with a result: the category is one of the five
\* values, and when the last attempt failed the result is Spam with a confidence
\* of 0.1 to 0.2 and a reasoning that names the failure.
C6_AlwaysAResult ==
  /\ [](Returned("categorize") =>
          /\ aiReturn.result.category \in EmailCategory
          /\ (isValidKey /\ ~AttemptCompleted) =>
                /\ aiReturn.result.category = "Spam"
                /\ aiReturn.result.confidence >= 10
                /\ aiReturn.result.confidence <= 20
                /\ aiReturn.result.reasoning \in
                     {<<"AI processing error">>, <<"Retry limit exceeded">>})
  /\ ((aiCall = "categorize" /\ aiPc \notin {"idle", "done"}) ~> Returned("categorize"))

\* the call ended after quota errors in all four attempts
C6_Witness ==
  /\ Returned("categorize")
  /\ attemptLog = <<"rate", "rate", "rate", "rate">>
  /\ aiReturn.result.category = "Spam"

\* C8: a call makes at most 4 attempts (3 retries), only a quota error is retried,
\* and any other error ends the call at once with the fallback.
C8_RetriesBounded ==
  /\ Len(attemptLog) <= 4
  /\ retries <= 3
  /\ \A n \in 1..(Len(attemptLog) - 1) : attemptLog[n] = "rate"
  /\ (attemptLog # <<>> /\ Last(attemptLog) = "other") =>
        /\ aiPc \in {"done", "idle"}
        /\ aiCall = "categorize" => aiReturn.result = ProcessingError
        /\ aiCall = "summarize" => aiReturn.summary = LocalSummary

\* three quota errors were retried and the fourth attempt failed with another error
C8_Witness ==
  /\ aiPc = "done"
  /\ attemptLog = <<"rate", "rate", "rate", "other">>

-----------------------------------------------------------------------------
(* Properties of AIService.checkRateLimit, under SpecRate *)

\* the admissions of the current window: from its start to 60 seconds later
InWindow == SelectSeq(admitted, LAMBDA t : t < lastRequestTime + requestWindow)

\* C7: in a 60-second window at most 15 calls are admitted, also when several
\* callers were blocked at once and are released when the window resets.
C7_AtMostLimitPerWindow == Len(InWindow) <= requestLimit

-----------------------------------------------------------------------------
(* Properties of indexEmail and of repeated ingestion, under SpecIngest *)

DocsWithId(store, id) == {d \in store : d.id = id}
OtherDocs(store, id) == {d \in store : d.id # id}

\* a step in which handler n's indexEmail call stores its Email
Upsert(n) == HandlerIndex(n, TRUE) /\ isConnected["main"]

\* C9: the index never holds two documents with one id, and every indexEmail call
\* that stores an Email leaves exactly one document with the Email's id, equal to
\* the Email just given, and leaves the documents with other ids as they were
C9_UpsertReplaces ==
  /\ [](\A d1 \in index, d2 \in index : d1.id = d2.id => d1 = d2)
  /\ [][\A n \in 1..MaxHandlers :
          Upsert(n) =>
            /\ DocsWithId(index', handlers[n].email.id) = {handlers[n].email}
            /\ OtherDocs(index', handlers[n].email.id)
                 = OtherDocs(index, handlers[n].email.id)]_vars

\* an id was stored twice, the second time over a classified document, and another
\* document is in the index
C9_Witness ==
  \E id \in reindexed :
    /\ \E d \in DocsWithId(index, id) : d.aiCategory = None
    /\ OtherDocs(index, id) # {}

\* the documents the index holds for one mailbox message
DocsOfMessage(a, seqno) ==
  {d \in index : d.id.accountId = a /\ d.id.seqno = seqno}

\* C10: however often a mailbox message is emitted, the index holds at most one
\* document for it
C10_OneDocumentPerMessage ==
  \A a \in Accounts : \A m \in Mailbox(a) :
    Cardinality(DocsOfMessage(a, m.seqno)) <= 1

-----------------------------------------------------------------------------
(* The operations of the index never raise *)

\* a step that is a call of an operation (every other step of SpecStore is a ping)
IsOperationStep == UNCHANGED <<isConnected, connectionAttempts>>

\* C11: no operation of the index raises.  An operation called while its instance
\* is disconnected sends nothing to the store, leaves the store as it is, and returns
\* nothing / null / an empty list; an operation whose store call fails returns the
\* same.
C11_OperationsNeverRaise ==
  /\ [](/\ ~lastOp.raised
        /\ (lastOp.op # "none" /\ ~lastOp.connected) =>
              ~lastOp.sent /\ lastOp.value = EmptyValue(lastOp.op)
        /\ (lastOp.connected /\ lastOp.answer = "error") =>
              lastOp.value = EmptyValue(lastOp.op))
  /\ [][(IsOperationStep /\ ~lastOp'.connected) => index' = index]_vars

\* a lookup on the disconnected instance of the controller returns null although the
\* entry point's instance has stored the document
C11_Witness ==
  /\ lastOp.op = "getEmailById" /\ ~lastOp.connected
  /\ lastOp.value = EmptyValue("getEmailById")
  /\ isConnected["main"] /\ index # {}

-----------------------------------------------------------------------------
(* Filtered search *)

\* C19: a search returns only documents that satisfy every filter it was given
\* (equal aiCategory; a numeric aiConfidence of at least minConfidence, so that a
\* document without a confidence is left out), ordered by date, newest first.
C19_OnlyMatchingNewestFirst ==
  lastOp.op = "searchEmails" =>
    LET items == lastOp.value.items
        f == lastOp.filters
    IN /\ \A j \in 1..Len(items) :
            /\ items[j] \in index
            /\ f.aiCategory # None => items[j].aiCategory = f.aiCategory
            /\ f.minConfidence # None =>
                 /\ items[j].aiConfidence \notin {None, Some(Null), Some(NaN)}
                 /\ items[j].aiConfidence[1] >= f.minConfidence[1]
       /\ \A j, k \in 1..Len(items) : j < k => items[j].date >= items[k].date

\* {aiCategory: "Interested", minConfidence: 0.6} returns one document while the
\* other is Interested with no numeric confidence
C19_Witness ==
  /\ lastOp.op = "searchEmails"
  /\ lastOp.filters = [aiCategory |-> Some("Interested"), minConfidence |-> Some(60)]
  /\ Len(lastOp.value.items) = 1
  /\ \E d \in index : d.aiCategory = Some("Interested") /\ d.aiConfidence = Some(Null)

-----------------------------------------------------------------------------
(* The alerts of the newEmail handler *)

\* C12: a handler whose classification is Interested calls the Slack notification
\* once and then the external webhook once; the webhook call follows whether the
\* Slack call posted, failed or found no URL; after each call the handler moves on
\* (no second attempt); the two calls leave the index, and with it the stored
\* classification, as they are; a handler with any other category ends without
\* either call.
C12_AlertsForInterested ==
  [][\A n \in 1..MaxHandlers :
       LET h  == handlers[n]
           h2 == handlers'[n]
       IN /\ (h.pc = "update" /\ h2 # h) =>
               IF h.aiResult.category = "Interested"
               THEN h2 = [h EXCEPT !.pc = "slack"] /\ h.alerts = <<>>
               ELSE h2 = FreeSlot
          /\ (h.pc = "slack" /\ h2 # h) =>
               /\ h2.pc = "webhook" /\ h2.email = h.email /\ h2.aiResult = h.aiResult
               /\ h2.alerts = <<"slack">>
               /\ index' = index
          /\ (h.pc = "webhook" /\ h2 # h) => h2 = FreeSlot /\ index' = index
          /\ (h2.pc = "slack" /\ h.pc # "slack") =>
               h.pc = "update" /\ h.aiResult.category = "Interested"
          /\ (h2.pc = "webhook" /\ h.pc # "webhook") => h.pc = "slack"]_vars

\* the Slack call has returned, the external webhook is being called, and the index
\* holds the Interested classification
C12_Witness ==
  \E n \in 1..MaxHandlers :
    /\ handlers[n].pc = "webhook"
    /\ handlers[n].alerts = <<"slack">>
    /\ \E d \in index : d.id = handlers[n].email.id /\ d.aiCategory = Some("Interested")

-----------------------------------------------------------------------------
(* The feedback log *)

C14_SuccessMeansRecorded ==
  (lastAck.kind = "route" /\ lastAck.status = 200) =>
    /\ lastAck.written
    /\ \E j \in 1..Len(feedbackFile.records) :
         feedbackFile.records[j].correctedCategory = lastAck.correctedCategory

\* the number of records of a log with a pair of categories
PairCount(log, pair) ==
  Cardinality({j \in 1..Len(log) : CorrectionKey(log[j]) = pair})

RECURSIVE SumOver(_, _)
SumOver(f, keys) ==
  IF keys = {} THEN 0
  ELSE LET k == CHOOSE x \in keys : TRUE IN f[k] + SumOver(f, keys \ {k})

\* what the claim says getFeedbackStats returns for a log
StatsMatch(stats, log) ==
  /\ stats.total = Len(log)
  /\ DOMAIN stats.corrections = {CorrectionKey(log[j]) : j \in 1..Len(log)}
  /\ \A pair \in DOMAIN stats.corrections : stats.corrections[pair] = PairCount(log, pair)
  /\ SumOver(stats.corrections, DOMAIN stats.corrections) = stats.total

\* every change of the log is one record added at its end by a call that wrote
AppendOnly ==
  [][feedbackFile' # feedbackFile =>
       /\ feedbackFile'.exists /\ lastAck'.written
       /\ Len(feedbackFile'.records) = Len(feedbackFile.records) + 1
       /\ SubSeq(feedbackFile'.records, 1, Len(feedbackFile.records)) = feedbackFile.records
       /\ feedbackFile'.records[Len(feedbackFile'.records)].correctedCategory
            = lastAck'.correctedCategory]_vars

-----------------------------------------------------------------------------
(* Fusion *)

\* the table of the fusion rule: condition, adjustment in hundredths, string
FusionTable(m, s, i) ==
  << [holds |-> s.sentiment = "Positive" /\ m.category = "Interested", add |-> 10,
      text  |-> "Sentiment analysis confirms positive sentiment"],
     [holds |-> s.sentiment = "Negative" /\ m.category = "Not Interested", add |-> 10,
      text  |-> "Sentiment analysis confirms negative sentiment"],
     [holds |-> s.sentiment = "Automated" /\ m.category = "Out of Office", add |-> 15,
      text  |-> "Sentiment analysis confirms automated response"],
     [holds |-> i.intent = "Confirmation" /\ m.category = "Meeting Booked", add |-> 10,
      text  |-> "Intent analysis confirms meeting confirmation"],
     [holds |-> i.intent = "Rejection" /\ m.category = "Not Interested", add |-> 10,
      text  |-> "Intent analysis confirms rejection"],
     [holds |-> m.category = "Spam" /\ s.sentiment = "Negative" /\ Greater(s.confidence, 80)
                /\ i.intent = "Informational" /\ Greater(i.confidence, 70), add |-> 15,
      text  |-> "Combined analysis confirms spam characteristics"] >>

\* the rows of a table that hold, in table order
Satisfied(table) == SelectSeq(table, LAMBDA row : row.holds)

RECURSIVE SumOfAdds(_)
SumOfAdds(rows) == IF rows = <<>> THEN 0 ELSE Head(rows).add + SumOfAdds(Tail(rows))

\* C16: for every category, sentiment and intent, combineModelResults keeps the
\* category, returns the confidence min(1.0, base + the sum of the adjustments of
\* the table conditions that hold), which is never below the base, and returns the
\* base reasoning followed by one string per condition that holds.
C16_FusionFollowsTable ==
  fusionOut.done =>
    LET m == fusionIn.m
        rows == Satisfied(FusionTable(fusionIn.m, fusionIn.s, fusionIn.i))
        r == fusionOut.result
    IN /\ r.category = m.category
       /\ r.confidence = MathMin(100, Plus(m.confidence, SumOfAdds(rows)))
       /\ ~Less(r.confidence, m.confidence)
       /\ r.reasoning = m.reasoning \o [j \in 1..Len(rows) |-> rows[j].text]

\* two conditions hold and the sum passes 1.0
C16_Witness ==
  /\ fusionOut.done
  /\ fusionIn.m.category = "Not Interested" /\ fusionIn.m.confidence = 95
  /\ fusionIn.s.sentiment = "Negative" /\ fusionIn.i.intent = "Rejection"
  /\ fusionOut.result.confidence = 100
  /\ Len(fusionOut.result.reasoning) = Len(fusionIn.m.reasoning) + 2

\* the inputs of the example: Spam with base 0.3, Negative 0.85, Informational 0.75
SpamExample ==
  /\ fusionIn.m.category = "Spam" /\ fusionIn.m.confidence = 30
  /\ fusionIn.s = [sentiment |-> "Negative", confidence |-> 85]
  /\ fusionIn.i = [intent |-> "Informational", confidence |-> 75]

SpamString == "Combined analysis confirms spam characteristics"
HasSpamString(reasoning) == \E j \in 1..Len(reasoning) : reasoning[j] = SpamString

\* the rule of the claim: Spam, Negative above 0.8, Informational above 0.7
SpamRuleApplies ==
  /\ fusionIn.m.category = "Spam"
  /\ fusionIn.s.sentiment = "Negative" /\ Greater(fusionIn.s.confidence, 80)
  /\ fusionIn.i.intent = "Informational" /\ Greater(fusionIn.i.confidence, 70)

\* C17 as stated: when the rule applies the confidence is the base plus 0.15,
\* clamped, and the string is in the reasoning; the rule applies in no other case;
\* and for the example the confidence the program returns is the number 0.45.
C17_SpamExampleIs045 ==
  fusionOut.done =>
    /\ SpamRuleApplies <=> HasSpamString(fusionOut.result.reasoning)
    /\ SpamRuleApplies =>
         fusionOut.result.confidence = MathMin(100, Plus(fusionIn.m.confidence, 15))
    /\ SpamExample => fusionOut.exact = ParseDouble(45)

\* C17 amended: the string is in the reasoning exactly when the rule applies (Spam,
\* Negative strictly above 0.8, Informational strictly above 0.7); then the
\* confidence is min(1.0, base + 0.15) computed in double arithmetic, and otherwise a
\* Spam base is returned as it is; for the example the result is the double
\* 0.3 + 0.15 = 0.44999999999999996, one unit in the last place below 0.45.
C17_SpamRuleInDoubles ==
  fusionOut.done =>
    /\ SpamRuleApplies <=> HasSpamString(fusionOut.result.reasoning)
    /\ SpamRuleApplies =>
         /\ fusionOut.result.confidence = MathMin(100, Plus(fusionIn.m.confidence, 15))
         /\ fusionOut.exact =
              DblMin(DblOne, DblAdd(ParseDouble(fusionIn.m.confidence), ParseDouble(15)))
    /\ (fusionIn.m.category = "Spam" /\ ~SpamRuleApplies) =>
         /\ fusionOut.result.confidence = fusionIn.m.confidence
         /\ fusionOut.exact = ParseDouble(fusionIn.m.confidence)
    /\ SpamExample =>
         /\ fusionOut.exact = <<471859, 209715, 209664>>
         /\ ParseDouble(45) = <<471859, 209715, 209728>>

\* the example has been combined and the rule applied
C17_Witness ==
  /\ fusionOut.done /\ SpamExample
  /\ HasSpamString(fusionOut.result.reasoning)
  /\ fusionOut.result.confidence = 45

-----------------------------------------------------------------------------
(* The local summary *)

\* the text simpleSummarize cuts: subject, ". ", body
SummaryContent == summaryIn.subject \o <<".", " ">> \o summaryIn.body

\* the first n characters of the content end at a word boundary
EndsAtWordBoundary(n) == n = Len(SummaryContent) \/ SummaryContent[n + 1] = " "

\* the 1-based positions of the spaces that lastIndexOf can return with a value > 0
CutPositions == {j \in 2..SummaryLimit : j <= Len(SummaryContent) /\ SummaryContent[j] = " "}

-----------------------------------------------------------------------------
(* C20: reconciliation of unclassified messages *)

Unclassified(id) == \E d \in index : d.id = id /\ d.aiCategory = None
Classified(id) == \E d \in index : d.id = id /\ d.aiCategory # None

\* C20: while the store and the external service stay available and the timers keep
\* firing, every message that is in the index without a classification is eventually
\* classified by the uncategorized job.
C20_UnclassifiedEventuallyClassified ==
  \A d \in SeedDocs : Unclassified(d.id) ~> Classified(d.id)

-----------------------------------------------------------------------------
(* Failures of one account, under SpecImap *)

\* the account has failed: a placeholder password, an 'error' event, or openBox failing
Failed(a) == acctState[a] = "failed" \/ errorFired[a]

\* a step in which account a fails
FailureStep(a) ==
  \/ ImapError(a)
  \/ ImapTransportError(a)
  \/ \E searchOk \in BOOLEAN : OpenBox(a, FALSE, searchOk)

PendingOf(set, a) == {t \in set : t.account = a}

\* a step in which processMessage emits an Email of account a
Emits(a) == \E t \in PendingOf(pending, a) : ProcessMessage(t, TRUE)

\* a failure of one account leaves the other accounts as they were, and resolves
\* the promise connectAllAccounts waits for
FailuresAreIsolated ==
  /\ [][\A a \in Accounts : FailureStep(a) =>
          \A b \in Accounts \ {a} :
            /\ acctState'[b] = acctState[b]
            /\ pollAt'[b] = pollAt[b]
            /\ connResolved'[b] = connResolved[b]
            /\ PendingOf(pending', b) = PendingOf(pending, b)]_vars
  /\ [](\A a \in Accounts : Failed(a) => connResolved[a])
  /\ []((\A a \in Accounts : connResolved[a]) => ENABLED ConnectAllReturns \/ isReady)

\* a failed account is never connected again
NeverReconnected ==
  [][\A a \in Accounts :
       Failed(a) => /\ Failed(a)'
                    /\ ~ImapReady(a)
                    /\ acctState[a] = "failed" => acctState'[a] = "failed"]_vars

\* C21 (as stated): a failure of one account leaves every other account unaffected
\* and does not stop connectAllAccounts from completing; the failed account emits no
\* messages and is not reconnected.
C21_FailedAccountEmitsNothing ==
  /\ FailuresAreIsolated
  /\ NeverReconnected
  /\ [][\A a \in Accounts : Failed(a) => ~Emits(a)]_vars

\* C21 (amended): as above, but only an account that failed before its folder was
\* open emits nothing; after an 'error' event on an open folder the messages already
\* fetched are still parsed and emitted, and no later fetch adds any.
C21_FailedBeforeOpenEmitsNothing ==
  /\ FailuresAreIsolated
  /\ NeverReconnected
  /\ [](\A a \in Accounts : acctState[a] = "failed" => PendingOf(pending, a) = {})
  /\ [][\A a \in Accounts :
          /\ acctState[a] = "failed" => ~Emits(a)
          /\ errorFired[a] => PendingOf(pending', a) \subseteq PendingOf(pending, a)]_vars

\* connectAllAccounts has completed with one account failed before its folder was
\* open, while the other account is watching and one of its Emails is in a handler
C21_Witness ==
  /\ isReady
  /\ \E a \in Accounts, b \in Accounts :
       /\ acctState[a] = "failed"
       /\ acctState[b] = "watching" /\ ~errorFired[b]
       /\ \E n \in 1..MaxHandlers :
            handlers[n].pc # "free" /\ handlers[n].email.accountId = b

-----------------------------------------------------------------------------
(* The order of the steps of the newEmail handler, under SpecIngest *)

\* the awaited calls of one handler in the order of the code, and where each leads
HandlerOrder ==
  { <<"free", "summarize">>, <<"summarize", "index">>, <<"index", "categorize">>,
    <<"categorize", "update">>, <<"update", "slack">>, <<"update", "free">>,
    <<"slack", "webhook">>, <<"webhook", "free">> }

\* the document the index holds for the Email of handler n
StoredFor(store, n) == {d \in store : d.id = handlers[n].email.id}

\* the document carries the classification that handler n holds
CarriesResult(d, n) ==
  /\ d.aiCategory = Some(handlers[n].aiResult.category)
  /\ d.aiConfidence = Some(JsonNumber(handlers[n].aiResult.confidence))
  /\ d.aiReasoning = Some(handlers[n].aiResult.reasoning)

\* a step in which the update call of handler n returns from a store that served it
UpdateServed(n) == HandlerUpdate(n, TRUE) /\ isConnected["main"]

\* C22: each handler performs the initial index write, then the classification, then
\* the update carrying the classification, then the notifications; the index write
\* follows the summary whatever the summary call returned, and a notification is
\* attempted only after the update call has returned.
C22_HandlerOrder ==
  [][\A n \in 1..MaxHandlers :
       /\ handlers'[n].pc # handlers[n].pc
            => <<handlers[n].pc, handlers'[n].pc>> \in HandlerOrder
       /\ handlers[n].pc = "index" /\ handlers'[n].pc = "categorize"
            => \/ index' = index
               \/ StoredFor(index', n) = {handlers[n].email}
       /\ handlers[n].pc = "update" /\ handlers'[n].pc # "update"
            => \/ index' = index
               \/ \A d \in StoredFor(index', n) : CarriesResult(d, n)
       /\ UpdateServed(n) => \A d \in StoredFor(index', n) : CarriesResult(d, n)
       /\ handlers'[n].pc \in {"slack", "webhook"} /\ handlers[n].pc # handlers'[n].pc
            => /\ handlers[n].pc \in {"update", "slack"}
               /\ handlers[n].aiResult.category = "Interested"
               /\ index' = index \/ handlers[n].pc = "update"]_vars

\* a handler is at its first notification, and the index holds its Email with the
\* classification of the update
C22_Witness ==
  \E n \in 1..MaxHandlers :
    /\ handlers[n].pc = "slack"
    /\ \E d \in index : d.id = handlers[n].email.id
                          /\ d.aiCategory = Some("Interested")
                          /\ d.summary = handlers[n].email.summary

-----------------------------------------------------------------------------
(* Parsing, under SpecImap *)

\* the fetched messages of the fetch that t belongs to, other than t
SameFetch(set, t) ==
  {u \in set : u # t /\ u.account = t.account /\ u.fetch = t.fetch /\ u.at = t.at}

\* the handler slots whose content the step changes
ChangedSlots == {n \in 1..MaxHandlers : handlers'[n] # handlers[n]}

\* C23: a message whose parse fails is dropped and nothing else changes: the other
\* messages of the fetch stay to be parsed, no handler and no connection is touched;
\* a message that parses starts exactly one handler with its normalized Email, and a
\* fetch hands over each message of the folder once.
C23_ParseFailureIsLocal ==
  /\ [][\A t \in pending :
          /\ ProcessMessage(t, FALSE) =>
               /\ pending' = pending \ {t}
               /\ SameFetch(pending', t) = SameFetch(pending, t)
               /\ handlers' = handlers
               /\ acctState' = acctState /\ pollAt' = pollAt /\ errorFired' = errorFired
          /\ ProcessMessage(t, TRUE) =>
               /\ pending' = pending \ {t}
               /\ \E n \in 1..MaxHandlers :
                    /\ ChangedSlots = {n}
                    /\ handlers[n].pc = "free"
                    /\ handlers'[n].email = NormalizedEmail(t.account, t.message, clock)
               /\ dropped' = dropped]_vars
  /\ [][\A a \in Accounts :
          PendingOf(pending', a) \ PendingOf(pending, a) # {} =>
            \E kind \in {"backfill", "poll"}, at \in {clock, pollAt[a]} :
              /\ PendingOf(pending', a) \ PendingOf(pending, a)
                   = {[account |-> a, message |-> m, fetch |-> kind, at |-> at] :
                        m \in Mailbox(a)}
              /\ \A u \in pending \cup dropped :
                   ~(u.account = a /\ u.fetch = kind /\ u.at = at)]_vars
  /\ [](pending \cap dropped = {})

\* one message of a fetch was dropped and another message of the same fetch is in a
\* handler as an Email
C23_Witness ==
  \E t \in dropped : \E n \in 1..MaxHandlers :
    /\ handlers[n].pc # "free"
    /\ handlers[n].email.accountId = t.account
    /\ handlers[n].email.id.seqno # t.message.seqno
    /\ acctState[t.account] = "watching"

-----------------------------------------------------------------------------
(* The waits of the retry loop, under SpecBackoff *)

\* one second, give or take the jitter
AboutOneSecond(ms) == InitialDelayMs <= ms /\ ms < InitialDelayMs + 1000

\* C24: the first retry waits about 1 second; each later computed wait is twice the
\* wait before it plus jitter and at most 30 seconds; a wait for an error that names
\* a retry-after duration is exactly that duration.
C24_BackoffAsStated ==
  \A k \in 1..Len(waits) :
    IF waits[k].named # None
    THEN waits[k].ms = waits[k].named[1]
    ELSE /\ k = 1 => AboutOneSecond(waits[k].ms)
         /\ k > 1 => \E j \in 0..999 :
                       waits[k].ms = MathMin(waits[k - 1].ms * 2 + j, DelayCapMs)
         /\ waits[k].ms <= DelayCapMs

-----------------------------------------------------------------------------
(* The rate window of the process, under SpecInstances *)

\* C25: the calls of the handler and of the jobs count against one budget: the
\* process admits at most 15 calls in a window.
C25_OneBudgetPerProcess == processAdmitted <= requestLimit

-----------------------------------------------------------------------------
(* The connectivity probe, under SpecSched *)

\* the pings an instance has made: the failed ones and the successful one
PingsMade(inst) == connectionAttempts[inst] + (IF isConnected[inst] THEN 1 ELSE 0)

\* a step that is a ping of the probe of the instance
IsPing(inst) == \E ok \in BOOLEAN : Ping(inst, ok)

\* C26: the probe makes at most 5 pings; the flag is set at the first successful ping
\* and stays clear after the fifth failure, and no ping follows either; only a ping
\* of the probe writes the flag and the attempt counter, whatever the store
\* operations of the instance do.
C26_ProbeEndsAndOwnsFlag ==
  /\ [](\A inst \in Instances :
          /\ PingsMade(inst) <= maxConnectionAttempts
          /\ connectionAttempts[inst] = maxConnectionAttempts => ~isConnected[inst])
  /\ [][\A inst \in Instances :
          /\ Ping(inst, TRUE) => isConnected'[inst]
          /\ isConnected[inst] \/ connectionAttempts[inst] = maxConnectionAttempts
               => /\ isConnected'[inst] = isConnected[inst]
                  /\ connectionAttempts'[inst] = connectionAttempts[inst]
                  /\ ~IsPing(inst)
          /\ isConnected'[inst] # isConnected[inst]
                \/ connectionAttempts'[inst] # connectionAttempts[inst]
               => IsPing(inst) /\ index' = index]_vars

\* the probe of the processor has failed five times and a job is searching with the
\* flag clear
C26_Witness ==
  /\ connectionAttempts["sched"] = maxConnectionAttempts
  /\ ~isConnected["sched"]
  /\ \E k \in JobKinds : jobPc[k] = "search"

-----------------------------------------------------------------------------
(* Backfill before polling, under SpecImap *)

\* the messages of the backfill of account a that have not been through processMessage
BackfillPending(a) == {t \in pending : t.account = a /\ t.fetch = "backfill"}

\* a step in which the polling timer of account a fires
Polls(a) == \E searchOk \in BOOLEAN : CheckForNewEmails(a, searchOk)

\* C27: an account backfills only after its folder was opened and polls only after
\* the backfill has streamed its messages; an account whose folder did not open
\* neither backfills nor polls.
C27_BackfillThenPolling ==
  /\ [](\A a \in Accounts :
          /\ PendingOf(pending, a) # {} => acctState[a] = "watching"
          /\ acctState[a] = "failed" => PendingOf(pending \cup dropped, a) = {})
  /\ [][\A a \in Accounts :
          /\ Polls(a) => acctState[a] = "watching" /\ BackfillPending(a) = {}
          /\ BackfillPending(a) = {} /\ BackfillPending(a)' # {}
               => \E searchOk \in BOOLEAN : OpenBox(a, TRUE, searchOk)]_vars

-----------------------------------------------------------------------------
(* The batch of a reconciliation job, under SpecSched *)

BatchSize(k) ==
  CASE k = "uncategorized" -> UncategorizedBatchSize
    [] k = "lowConfidence" -> LowConfidenceBatchSize
    [] OTHER               -> SummariesBatchSize

\* the document of the index that a batch entry names
Fetched_Doc(id) == {d \in index : d.id = id}

\* a stored confidence that is a number below the threshold
StoredBelowThreshold(d) ==
  /\ d.aiConfidence # None
  /\ d.aiConfidence[1] # Null
  /\ d.aiConfidence[1] < LowConfidenceThreshold

\* the step in which the search of job k returns a batch
TakesBatch(k) == jobPc[k] = "search" /\ jobPc'[k] = "ai"

\* C28: a run processes at most 50 (uncategorized), 30 (low confidence), 50 (summary)
\* items; a low-confidence item had a stored confidence below 0.5 when fetched (no
\* confidence and exactly 0.5 are not selected), a summary item had a missing or
\* empty summary when fetched; the items are processed one at a time.
C28_BatchLimitsAndSelection ==
  /\ [](\A k \in JobKinds : Len(jobBatch[k]) <= BatchSize(k))
  /\ [][\A k \in JobKinds : TakesBatch(k) =>
          \A n \in 1..Len(jobBatch'[k]) :
            \E d \in Fetched_Doc(jobBatch'[k][n]) :
              /\ k = "lowConfidence" => StoredBelowThreshold(d)
              /\ k = "summaries" => HasNoSummary(d)]_vars
  /\ [][\A k \in JobKinds : jobPc[k] = "update" =>
          Cardinality(index' \ index) <= 1 /\ jobBatch'[k] = jobBatch[k]]_vars

-----------------------------------------------------------------------------
(* A failing item of a reconciliation run, under SpecSched *)

\* the call of the job for its current item failed: the classification ended in
\* the catch block, or the summarization did while the key is valid
ItemFailed(k) ==
  IF k = "summaries"
  THEN isValidKey /\ jobResult[k].summary = LocalSummary
  ELSE jobResult[k].result = ProcessingError

\* the step in which the update call of job k returns
UpdateReturns(k) == jobPc[k] = "update" /\ jobPc'[k] = "delay"

\* the run of job k ends
RunEnds(k) == jobPc[k] \in {"ai", "update", "delay"} /\ jobPc'[k] = "idle"

\* C29: a failure of one item (classification, summarization or index update) does
\* not stop the run, every remaining item of the batch is still processed, and the
\* item that failed keeps its previous index fields.
C29_ItemFailureIsLocal ==
  [][\A k \in JobKinds :
       /\ RunEnds(k) => jobPc[k] = "delay" /\ Len(jobBatch[k]) = 1
       /\ jobPc[k] \in {"ai", "update", "delay"} /\ jobBatch'[k] # jobBatch[k]
            => jobPc[k] = "delay" /\ jobBatch'[k] = Tail(jobBatch[k])
       /\ UpdateReturns(k) /\ ItemFailed(k) => index' = index]_vars

-----------------------------------------------------------------------------
(* Coinciding timers, under FairSpecTimers *)

-----------------------------------------------------------------------------
(* The stored classification under re-ingestion, under SpecIngest *)

\* the document has a category, a confidence and a reasoning
HasClassification(d) ==
  d.aiCategory # None /\ d.aiConfidence # None /\ d.aiReasoning # None

\* C31: once an index document has a category, confidence and reasoning, it has
\* them in every later state: re-ingestion of the same message by backfill or by a
\* poll never leaves the document without its stored classification.
C31_ClassificationIsKept ==
  [][\A d \in index : HasClassification(d) =>
       \E e \in index' : e.id = d.id /\ HasClassification(e)]_vars

-----------------------------------------------------------------------------
(* Alerts for a re-emitted message, under SpecAlerts *)

\* C32: for one mailbox message each webhook receives at most one alert over the
\* life of the process, even though polling re-emits the message on every cycle
\* and each re-emission is classified again.
C32_OneAlertPerMessage ==
  \A hook \in Hooks : \A r \in delivered :
    Cardinality(DeliveredTo(hook, r.id)) <= 1

-----------------------------------------------------------------------------
(* Polling after the end of a connection, under SpecShutdown *)

\* C33: after an account's connection has ended (end event, or disconnectAll) no
\* further poll search is issued on that account's connection: the polling timer
\* of an account stops with its connection.
C33_PollingStopsWithConnection ==
  [][\A a \in Accounts : connEnded[a] => ~Polls(a)]_vars

-----------------------------------------------------------------------------
(* The fallback of a failed reclassification, under SpecSched *)

\* the reasoning of the results that categorizeEmail returns for a call that failed:
\* the catch block, the exhausted retries, an answer without a valid category
FailureReasons ==
  {"AI processing error", "Retry limit exceeded", "Invalid AI response format"}

FailedResult(r) == r.reasoning # <<>> /\ Head(r.reasoning) \in FailureReasons

\* the classifying jobs
Classifiers == {"uncategorized", "lowConfidence"}

\* the update of job k stored the result of its call in the document of the item
Wrote(k) ==
  /\ UpdateReturns(k)
  /\ index' # index
  /\ \A d \in index' : d.id = Head(jobBatch[k]) =>
        /\ d.aiCategory = Some(jobResult[k].result.category)
        /\ d.aiConfidence = Some(JsonNumber(jobResult[k].result.confidence))
        /\ d.aiReasoning = Some(jobResult[k].result.reasoning)

\* every low-confidence run that fetches the documents of the store takes the item
SelectedAgain(store, id) ==
  \A found \in SearchResults(store, NoFilters) :
    \E n \in 1..Len(JobItems("lowConfidence", found)) :
      JobItems("lowConfidence", found)[n].id = id

\* the update of a job either leaves the store as it is (not connected, or the call
\* failed) or stores what the call returned, a failure fallback included; the
\* stored fallback has category Spam and a confidence of at most limit, and the
\* item is selected again
FallbackIsWritten(limit) ==
  \A k \in Classifiers :
    UpdateReturns(k) =>
      /\ index' = index \/ Wrote(k)
      /\ Wrote(k) /\ FailedResult(jobResult[k].result) =>
            /\ jobResult[k].result.category = "Spam"
            /\ jobResult[k].result.confidence <= limit
            /\ SelectedAgain(index', Head(jobBatch[k]))

\* a document that was selectable stops being so only through the update of a job
\* whose call returned a confidence of at least the threshold
LowUntilReclassified ==
  \A d \in index : IsLowConfidence(d) =>
    \/ \E e \in index' : e.id = d.id /\ IsLowConfidence(e)
    \/ \E k \in Classifiers :
         /\ Wrote(k) /\ Head(jobBatch[k]) = d.id
         /\ ~FailedResult(jobResult[k].result)
         /\ ~Less(jobResult[k].result.confidence, LowConfidenceThreshold)
         /\ jobResult[k].result.confidence # NaN

\* the confidence of the format fallback, and the most the fallback of a failed
\* call can have: the format fallback with the 0.15 of the spam rule added
FormatFallbackConfidence == 30
BoostedFallbackConfidence == 45

-----------------------------------------------------------------------------
(* The result after exhausted retries, under SpecAI *)

\* every attempt of the call, the first and the maxRetries retries, ended in a
\* quota error
QuotaErrorPersisted ==
  /\ Len(attemptLog) = maxRetries + 1
  /\ \A n \in 1..Len(attemptLog) : attemptLog[n] = "rate"

\* C35: when a rate-limit error persists through all retries of a classify call,
\* the call returns the retries-exhausted result (Spam, 0.1, "Retry limit
\* exceeded"), which is distinct from the result of a non-rate-limit error (0.2,
\* "AI processing error").
C35_ExhaustedResultReturned ==
  /\ RetryLimitExceeded # ProcessingError
  /\ (aiCall = "categorize" /\ aiPc = "done" /\ QuotaErrorPersisted)
        => aiReturn.result = RetryLimitExceeded

-----------------------------------------------------------------------------
(* The window check and the requests of one classify call, under SpecAI *)

\* the three requests of an attempt
RequestSteps == {"category", "sentiment", "intent"}

\* the call enters checkRateLimit: only at its start
EntersWindowCheck == aiPc' = "rateLimit" /\ aiPc # "rateLimit"

\* the order of the steps of a classify call: the window check, then category,
\* sentiment, intent; a retry follows a failed request of one of the first
\* maxRetries attempts and starts again at the category request
ClassifyStepOrder ==
  (aiCall' = "categorize" /\ aiPc' # aiPc) =>
     /\ aiPc' = "category" => aiPc \in {"rateLimit", "backoff"}
     /\ aiPc' = "sentiment" => aiPc = "category" /\ Thrown(catResp') = "none"
     /\ aiPc' = "intent" => aiPc = "sentiment" /\ Thrown(sentResp') = "none"
     /\ aiPc' = "backoff" => aiPc \in RequestSteps /\ retries < maxRetries
     /\ aiPc = "backoff" => aiPc' = "category" /\ retries' = retries + 1

\* a request of the attempt throws: the answers the attempt has are dropped
AttemptFails == aiPc \in RequestSteps /\ aiPc' \in {"backoff", "done"} /\
                Len(attemptLog') > Len(attemptLog) /\
                attemptLog'[Len(attemptLog')] # "ok"

\* C36: the rate governor counts calls, not requests: a classify call passes the
\* window check once, at its start, then issues category, sentiment and intent in
\* that order, re-issues the three on every retry (at most maxRetries + 1
\* attempts) without another window check and without a change of the window
\* counter, and drops the category answer when a later request of the attempt
\* fails.
C36_OneWindowCheckPerCall ==
  [][/\ EntersWindowCheck => aiPc = "idle"
     /\ ClassifyStepOrder
     /\ Len(attemptLog') <= maxRetries + 1
     /\ (aiPc \in RequestSteps \cup {"backoff"}) => requestCount' = requestCount
     /\ AttemptFails => mainCategory' = NoResult /\ sentiment' = NoSentiment]_vars

\* the third attempt of a classify call got a category answer and then a quota
\* error from the sentiment request: the answer is dropped and a retry is pending
C36_Witness ==
  /\ aiCall = "categorize"
  /\ aiPc = "backoff"
  /\ retries = maxRetries - 1
  /\ Thrown(catResp) = "none"
  /\ Thrown(sentResp) = "rate"
  /\ mainCategory = NoResult

-----------------------------------------------------------------------------
(* Blocked callers of checkRateLimit, under FairSpecRate *)

\* time passes and every timer that is due runs its callback
FairRate == WF_vars(Tick) /\ \A c \in Callers : WF_vars(DelayReturns(c))

FairSpecRate == SpecRate /\ FairRate

Blocked(c) == rlPc[c] = "delay"

\* the end of the current window
WindowEnd == lastRequestTime + requestWindow

\* the timer of a blocked caller is set to no later than the end of the window
WaitsWithinWindow ==
  \A c \in Callers :
     Blocked(c) => rlWake[c] <= WindowEnd /\ rlWake[c] - clock <= requestWindow

\* C37: a caller blocked by the rate governor always proceeds: checkRateLimit
\* returns after a wait of at most the rest of the current window, however many
\* other callers wait or arrive (within the time the clock covers), and the window
\* counter never exceeds requestLimit.
C37_BlockedCallerProceeds ==
  /\ [](requestCount <= requestLimit)
  /\ []WaitsWithinWindow
  /\ \A c \in Callers : (Blocked(c) /\ rlWake[c] <= MaxTime) ~> ~Blocked(c)

\* a blocked caller has just returned at the end of the window, after part of the
\* window had passed when it was blocked, while another caller is still blocked
C37_Witness ==
  /\ requestCount = CountAfterWait
  /\ lastRequestTime = clock
  /\ Len(admitted) > 0 /\ admitted[Len(admitted)] = clock
  /\ \E c \in Callers : Blocked(c) /\ rlWake[c] = clock

-----------------------------------------------------------------------------
(* The frame of the partial updates, under SpecStore *)

Ids(store) == {d.id : d \in store}

\* the fields of a document that come from the message
SameMessageFields(d, e) ==
  /\ e.id = d.id /\ e.accountId = d.accountId
  /\ e.messageId = d.messageId /\ e.date = d.date

SameClassification(d, e) ==
  /\ e.aiCategory = d.aiCategory
  /\ e.aiConfidence = d.aiConfidence
  /\ e.aiReasoning = d.aiReasoning

\* from one store to the next: no document is created or removed, the documents
\* with another id are the same, and the document with this id, if there is one,
\* keeps what Kept compares
UpdateFrame(id, Kept(_, _)) ==
  /\ Ids(index') = Ids(index)
  /\ OtherDocs(index', id) = OtherDocs(index, id)
  /\ id \notin Ids(index) => index' = index
  /\ \A d \in DocsWithId(index, id) :
        \E e \in DocsWithId(index', id) : SameMessageFields(d, e) /\ Kept(d, e)

KeepsSummary(d, e) == e.summary = d.summary

\* C38: a partial update for an id without a document creates no document and
\* changes no other document; a partial update for an existing id changes only
\* the fields it names: the classification update keeps the summary and the
\* message fields, the summary update keeps the classification.
C38_PartialUpdateFrame ==
  [][/\ lastOp'.op = "updateEmailAIResults" =>
          \A inst \in {"main", "sched"}, id \in StoreIds, r \in StoreResults,
             a \in StoreAnswers :
             OpUpdateEmailAIResults(inst, id, r, a) => UpdateFrame(id, KeepsSummary)
     /\ lastOp'.op = "updateEmailSummary" =>
          \A id \in StoreIds, a \in StoreAnswers :
             OpUpdateEmailSummary(id, "model summary", a)
               => UpdateFrame(id, SameClassification)]_vars

\* the store has answered a classification update for the one document of the
\* index, which has its results and its summary, and has then refused a summary
\* update for the id that has no document
C38_Witness ==
  /\ lastOp.op = "updateEmailSummary" /\ lastOp.sent /\ lastOp.answer = "error"
  /\ Cardinality(index) = 1
  /\ \E d \in index :
        /\ d.aiCategory = Some("Interested")
        /\ d.summary = Some("model summary")
        /\ d.date = 95000

-----------------------------------------------------------------------------
(* The frame of a feedback submission, under SpecFeedback *)

\* the classification of every document is the same in the next state
ClassificationsKept ==
  /\ Ids(index') = Ids(index)
  /\ \A d \in index : \E e \in DocsWithId(index', d.id) : SameClassification(d, e)

\* C39: recording feedback changes the feedback log only: the category, confidence
\* and reasoning stored in the index are the same after a feedback submission as
\* before it, and a submission for an id that has no document in the index adds
\* nothing to the log.
C39_FeedbackChangesLogOnly ==
  [][/\ \A id \in FeedbackIds, c \in SubmittedCategories :
          FeedbackSubmit(id, c) => index' = index /\ feedbackFile' = feedbackFile
     /\ \A call \in feedbackCalls, a \in StoreAnswers, io \in FileOutcomes :
          FeedbackRecord(call, a, io) =>
             /\ index' = index
             /\ ClassificationsKept
             /\ call.id \notin Ids(index) => feedbackFile' = feedbackFile]_vars

\* a correction of the document's category is in the log, the document still has
\* the classification it had, and the submission after it was refused with 404
C39_Witness ==
  /\ Len(feedbackFile.records) = 1
  /\ feedbackFile.records[1].correctedCategory = "Not Interested"
  /\ \E d \in index :
        /\ d.id = feedbackFile.records[1].emailId
        /\ d.aiCategory = Some(feedbackFile.records[1].originalCategory)
        /\ d.aiConfidence = Some(95)
  /\ lastAck.kind = "route" /\ lastAck.status = 404

====
